---- MODULE Spec2Model ----
(***************************************************************************)
(* Model of the plant energy dashboard (First-WebApp):                     *)
(*   - services/dataService.ts : safeFloat, readDataFile, processPlantData, *)
(*     getBlankPlantData                                                    *)
(*   - constants (CONVERSIONS, EMISSION_FACTORS)                            *)
(*   - App : parseDateString, the derived views and handleFileUpload        *)
(*                                                                         *)
(* JavaScript numbers are modelled as extended rationals [n, d]:           *)
(*   d > 0  : the finite value n/d in lowest terms                         *)
(*   d = 0  : n = 1 is +Infinity, n = -1 is -Infinity, n = 0 is NaN         *)
(* Arithmetic is exact on finite values (binary rounding of doubles is not *)
(* modelled) and follows IEEE-754 on the non-finite ones.                  *)
(* JavaScript strings that the program inspects character by character     *)
(* (numeric text, date text) are sequences of one-character strings.        *)
(***************************************************************************)
EXTENDS Integers, Sequences, FiniteSets, TLC

\* ------------------------------------------------------------------------
\* JavaScript numbers
\* ------------------------------------------------------------------------

Abs(x) == IF x < 0 THEN -x ELSE x

Sgn(x) == IF x < 0 THEN -1 ELSE IF x > 0 THEN 1 ELSE 0

RECURSIVE GCD(_, _)
GCD(a, b) == IF b = 0 THEN a ELSE GCD(b, a % b)

\* The finite number n/d (d > 0), in lowest terms.
Rat(n, d) ==
  LET g == GCD(Abs(n), d)
  IN  [n |-> n \div g, d |-> d \div g]

Num(k) == [n |-> k, d |-> 1]

Zero == [n |-> 0, d |-> 1]

NaN == [n |-> 0, d |-> 0]

PosInf == [n |-> 1, d |-> 0]

NegInf == [n |-> -1, d |-> 0]

Inf(s) == IF s < 0 THEN NegInf ELSE PosInf

IsNaN(x) == x.d = 0 /\ x.n = 0

IsFinite(x) == x.d > 0

\* a + b
Add(a, b) ==
  IF IsNaN(a) \/ IsNaN(b) THEN NaN
  ELSE IF a.d = 0 /\ b.d = 0 THEN (IF a.n = b.n THEN a ELSE NaN)
  ELSE IF a.d = 0 THEN a
  ELSE IF b.d = 0 THEN b
  ELSE LET g == GCD(a.d, b.d)
       IN  Rat(a.n * (b.d \div g) + b.n * (a.d \div g), (a.d \div g) * b.d)

\* a * b
Mul(a, b) ==
  IF IsNaN(a) \/ IsNaN(b) THEN NaN
  ELSE IF a.d = 0 \/ b.d = 0
       THEN (IF a.n = 0 \/ b.n = 0 THEN NaN ELSE Inf(Sgn(a.n) * Sgn(b.n)))
  ELSE LET g1 == GCD(Abs(a.n), b.d)
           g2 == GCD(Abs(b.n), a.d)
       IN  IF a.n = 0 \/ b.n = 0 THEN Zero
           ELSE Rat((a.n \div g1) * (b.n \div g2), (a.d \div g2) * (b.d \div g1))

\* a / b
Div(a, b) ==
  IF IsNaN(a) \/ IsNaN(b) THEN NaN
  ELSE IF a.d = 0 /\ b.d = 0 THEN NaN
  ELSE IF a.d = 0 THEN Inf(a.n * (IF b.n < 0 THEN -1 ELSE 1))
  ELSE IF b.d = 0 THEN Zero
  ELSE IF b.n = 0 THEN (IF a.n = 0 THEN NaN ELSE Inf(Sgn(a.n)))
  ELSE LET g1 == GCD(Abs(a.n), Abs(b.n))
           g2 == GCD(a.d, b.d)
       IN  IF a.n = 0 THEN Zero
           ELSE Rat(Sgn(b.n) * (a.n \div g1) * (b.d \div g2),
                    (Abs(b.n) \div g1) * (a.d \div g2))

\* a > b (false as soon as one side is NaN)
Gt(a, b) ==
  IF IsNaN(a) \/ IsNaN(b) THEN FALSE
  ELSE IF a.d = 0 /\ b.d = 0 THEN a.n > b.n
  ELSE IF a.d = 0 THEN a.n > 0
  ELSE IF b.d = 0 THEN b.n < 0
  ELSE LET g == GCD(a.d, b.d)
       IN  a.n * (b.d \div g) > b.n * (a.d \div g)

\* a <= b (false as soon as one side is NaN)
Le(a, b) == ~IsNaN(a) /\ ~IsNaN(b) /\ ~Gt(a, b)

\* ------------------------------------------------------------------------
\* parseFloat over character sequences
\* ------------------------------------------------------------------------

Digits == {"0", "1", "2", "3", "4", "5", "6", "7", "8", "9"}

IsDigit(c) == c \in Digits

DigitVal(c) ==
  CASE c = "0" -> 0 [] c = "1" -> 1 [] c = "2" -> 2 [] c = "3" -> 3
    [] c = "4" -> 4 [] c = "5" -> 5 [] c = "6" -> 6 [] c = "7" -> 7
    [] c = "8" -> 8 [] c = "9" -> 9

IsWhiteSpace(c) == c \in {" ", "\t", "\n", "\r"}

RECURSIVE Pow10(_)
Pow10(k) == IF k = 0 THEN 1 ELSE 10 * Pow10(k - 1)

\* First index >= i of s that holds no white space.
RECURSIVE SkipWhiteSpace(_, _)
SkipWhiteSpace(s, i) ==
  IF i <= Len(s) /\ IsWhiteSpace(s[i]) THEN SkipWhiteSpace(s, i + 1) ELSE i

\* First index >= i of s that holds no decimal digit.
RECURSIVE DigitsEnd(_, _)
DigitsEnd(s, i) ==
  IF i <= Len(s) /\ IsDigit(s[i]) THEN DigitsEnd(s, i + 1) ELSE i

\* The decimal value of the digits s[i..j] (0 when the range is empty).
RECURSIVE DigitsValue(_, _, _)
DigitsValue(s, i, j) ==
  IF j < i THEN 0 ELSE 10 * DigitsValue(s, i, j - 1) + DigitVal(s[j])

HasPrefixAt(s, i, p) ==
  i + Len(p) - 1 <= Len(s) /\ SubSeq(s, i, i + Len(p) - 1) = p

InfinityLiteral == <<"I", "n", "f", "i", "n", "i", "t", "y">>

\* parseFloat(s): the longest prefix of the trimmed text that is a
\* StrDecimalLiteral; NaN when there is none.  Exponents beyond the range of
\* a double overflow to an infinity or underflow to 0.  The scan is written
\* as a chain of steps, each handing the indices it found to the next.

\* sign * mantissa * 10^(+-eVal)
ScaleByExponent(mant, sign, eNeg, eVal) ==
  IF mant.n = 0 THEN Zero
  ELSE IF eVal > 308 THEN (IF eNeg THEN Zero ELSE Inf(sign))
  ELSE IF eNeg THEN Div(mant, Num(Pow10(eVal)))
  ELSE Mul(mant, Num(Pow10(eVal)))

\* The exponent digits are s[es..ee-1]; without a digit there is no exponent.
ApplyExponent(s, sign, mant, es, ee) ==
  IF ee > es
  THEN ScaleByExponent(mant, sign, s[es - 1] = "-", DigitsValue(s, es, ee - 1))
  ELSE mant

ParseExponentDigits(s, sign, mant, es) ==
  ApplyExponent(s, sign, mant, es, DigitsEnd(s, es))

\* The mantissa ends before index me.
ParseExponent(s, sign, mant, me) ==
  IF me <= Len(s) /\ s[me] \in {"e", "E"}
  THEN ParseExponentDigits(s, sign, mant,
         IF me + 1 <= Len(s) /\ s[me + 1] \in {"+", "-"} THEN me + 2 ELSE me + 1)
  ELSE mant

\* Integer digits s[i1..ie-1]; with a dot at ie, fraction digits s[ie+1..fe-1],
\* else fe = ie.
ParseMantissa(s, sign, i1, ie, fe) ==
  LET nFrac == IF fe > ie THEN fe - ie - 1 ELSE 0
  IN  IF (ie - i1) + nFrac = 0 THEN NaN
      ELSE ParseExponent(s, sign,
             Rat(sign * (DigitsValue(s, i1, ie - 1) * Pow10(nFrac)
                          + DigitsValue(s, ie + 1, fe - 1)),
                 Pow10(nFrac)),
             fe)

ParseDigits(s, sign, i1, ie) ==
  ParseMantissa(s, sign, i1, ie,
    IF ie <= Len(s) /\ s[ie] = "." THEN DigitsEnd(s, ie + 1) ELSE ie)

ParseUnsigned(s, sign, i1) ==
  IF HasPrefixAt(s, i1, InfinityLiteral) THEN Inf(sign)
  ELSE ParseDigits(s, sign, i1, DigitsEnd(s, i1))

ParseSigned(s, i0) ==
  ParseUnsigned(s,
    IF i0 <= Len(s) /\ s[i0] = "-" THEN -1 ELSE 1,
    IF i0 <= Len(s) /\ s[i0] \in {"+", "-"} THEN i0 + 1 ELSE i0)

ParseFloatText(s) == ParseSigned(s, SkipWhiteSpace(s, 1))

\* ------------------------------------------------------------------------
\* Cells of a raw row
\* ------------------------------------------------------------------------

\* A column that is absent from the row (property lookup gives undefined).
Undefined == [k |-> "undefined"]

Null == [k |-> "null"]

NumCell(x) == [k |-> "number", v |-> x]

StrCell(s) == [k |-> "string", s |-> s]

\* ToString(cell), as parseFloat applies it to its argument.
CellToString(c) ==
  CASE c.k = "string"    -> c.s
    [] c.k = "undefined" -> <<"u", "n", "d", "e", "f", "i", "n", "e", "d">>
    [] c.k = "null"      -> <<"n", "u", "l", "l">>

\* isNaN(parsed) ? 0 : parsed
ZeroIfNaN(parsed) == IF IsNaN(parsed) THEN Zero ELSE parsed

safeFloat_KeepNaN(val) ==
  IF val.k = "number" THEN val.v ELSE ParseFloatText(CellToString(val))

\* safeFloat: a number is returned as it is; anything else goes through
\* parseFloat, and NaN becomes 0.
safeFloat(val) ==
  IF val.k = "number" THEN val.v
  ELSE ZeroIfNaN(ParseFloatText(CellToString(val)))

\* JavaScript truthiness of a cell, as `x || fallback` tests it.
Truthy(c) ==
  CASE c.k = "string"    -> c.s # <<>>
    [] c.k = "number"    -> ~IsNaN(c.v) /\ c.v # Zero
    [] c.k = "undefined" -> FALSE
    [] c.k = "null"      -> FALSE
    [] OTHER             -> TRUE

OrElse_NullishOnly(a, b) == IF a.k \in {"undefined", "null"} THEN b ELSE a

\* a || b
OrElse(a, b) == IF Truthy(a) THEN a ELSE b

\* ------------------------------------------------------------------------
\* constants: CONVERSIONS and EMISSION_FACTORS
\* ------------------------------------------------------------------------

SCM_TO_MMBTU == Rat(396, 10000)

KL_TO_MMBTU_HSD == Rat(358, 10)

BARREL_TO_MMBTU_OIL == Rat(58, 10)

MMBTU_TO_GJ == Rat(105506, 100000)

GAS_KGCO2_PER_SCM == Rat(188, 100)

HSD_KGCO2_PER_KL == Num(2650)

GRID_ELEC_KGCO2_PER_KWH_GasFactor == Rat(188, 100)

GRID_ELEC_KGCO2_PER_KWH == Rat(82, 100)

\* ------------------------------------------------------------------------
\* types: the columns of RawPlantData.  The two water headers end in "m3"
\* here where the source has a superscript three.
\* ------------------------------------------------------------------------

H_Plant == "Plant Name"

H_Date == "Date"

NumericHeaders ==
  { "Gas Flared (SCM)",
    "Gas Consumption - Boiler (SCM)",
    "Gas Consumption - Furnace (SCM)",
    "Gas Consumption - GDU (SCM)",
    "Gas Consumption - Engine (SCM)",
    "Gas Consumption - Package Gas Compressor (SCM)",
    "Electrical Consumption - GCS (kWh)",
    "Electrical Consumption - ETP (kWh)",
    "Electrical Consumption - Refinery (kWh)",
    "Water Consumption - GCS (m3)",
    "Water Consumption - Refinery (m3)",
    "Electrical Generated (kWh)",
    "HSD Consumption - Pumps (KL)",
    "HSD Consumption - Emergency Diesel Gensets (KL)",
    "HSD Issued - Fire Section (KL)",
    "HSD Issued - PSA (KL)",
    "HSD Issued - Others (KL)",
    "Gas Production (SCM)",
    "Oil Production (Barrels)",
    "APSEB Electricity Imported (kWh)",
    "Expected Energy Consumption (MMBTU)" }

Headers == {H_Plant, H_Date} \cup NumericHeaders

\* ------------------------------------------------------------------------
\* dataService: processPlantData and getBlankPlantData
\* ------------------------------------------------------------------------

UnknownPlant == StrCell(<<"U", "n", "k", "n", "o", "w", "n", " ", "P", "l", "a", "n", "t">>)

UnknownDate == StrCell(<<"U", "n", "k", "n", "o", "w", "n", " ", "D", "a", "t", "e">>)

\* gasTotalInternal: the sum of the five internal gas consumers.
GasTotalInternal_DropCompressor(gasBoiler, gasFurnace, gasGDU, gasEngine, gasCompressor) ==
  Add(Add(Add(gasBoiler, gasFurnace), gasGDU), gasEngine)

GasTotalInternal(gasBoiler, gasFurnace, gasGDU, gasEngine, gasCompressor) ==
  Add(Add(Add(Add(gasBoiler, gasFurnace), gasGDU), gasEngine), gasCompressor)

EnergyFromHSD_GasFactor(hsdTotalConsumed) == Mul(hsdTotalConsumed, SCM_TO_MMBTU)

EnergyFromHSD(hsdTotalConsumed) == Mul(hsdTotalConsumed, KL_TO_MMBTU_HSD)

TotalEnergyExpended_GasOnly(energyFromGasMMBTU, energyFromHSDMMBTU) ==
  energyFromGasMMBTU

TotalEnergyExpended(energyFromGasMMBTU, energyFromHSDMMBTU) ==
  Add(energyFromGasMMBTU, energyFromHSDMMBTU)

Scope1Tonnes_InKg(gasTotalInternal, hsdTotalConsumed) ==
  Add(Mul(gasTotalInternal, GAS_KGCO2_PER_SCM),
      Mul(hsdTotalConsumed, HSD_KGCO2_PER_KL))

\* Scope 1: gas combustion + HSD combustion, in tonnes.
Scope1Tonnes(gasTotalInternal, hsdTotalConsumed) ==
  Div(Add(Mul(gasTotalInternal, GAS_KGCO2_PER_SCM),
          Mul(hsdTotalConsumed, HSD_KGCO2_PER_KL)),
      Num(1000))

\* SEC = gas energy consumed / total energy produced.
Sec(energyFromGasMMBTU, totalEnergyProducedMMBTU) ==
  IF Gt(totalEnergyProducedMMBTU, Zero)
  THEN Div(energyFromGasMMBTU, totalEnergyProducedMMBTU)
  ELSE Zero

Eii_Unguarded(totalEnergyExpendedMMBTU, expectedEnergyMMBTU) ==
  Mul(Div(totalEnergyExpendedMMBTU, expectedEnergyMMBTU), Num(100))

\* EII = actual / expected, in percent.
Eii(totalEnergyExpendedMMBTU, expectedEnergyMMBTU) ==
  IF Gt(expectedEnergyMMBTU, Zero)
  THEN Mul(Div(totalEnergyExpendedMMBTU, expectedEnergyMMBTU), Num(100))
  ELSE Zero

\* Emission intensity = emissions / gas produced.
EmissionIntensity(ghgTotal, gasProduced) ==
  IF Gt(gasProduced, Zero) THEN Div(ghgTotal, gasProduced) ELSE Zero

\* The body of processPlantData; v[h] is safeFloat(raw[h]) for each numeric
\* column h.
ProcessedRecord(raw, v) ==
  LET gasFlared == v["Gas Flared (SCM)"]
      gasBoiler == v["Gas Consumption - Boiler (SCM)"]
      gasFurnace == v["Gas Consumption - Furnace (SCM)"]
      gasGDU == v["Gas Consumption - GDU (SCM)"]
      gasEngine == v["Gas Consumption - Engine (SCM)"]
      gasCompressor == v["Gas Consumption - Package Gas Compressor (SCM)"]
      gasTotalInternal ==
        GasTotalInternal(gasBoiler, gasFurnace, gasGDU, gasEngine, gasCompressor)
      elecGCS == v["Electrical Consumption - GCS (kWh)"]
      elecETP == v["Electrical Consumption - ETP (kWh)"]
      elecRefinery == v["Electrical Consumption - Refinery (kWh)"]
      elecTotalConsumed == Add(Add(elecGCS, elecETP), elecRefinery)
      waterGCS == v["Water Consumption - GCS (m3)"]
      waterRefinery == v["Water Consumption - Refinery (m3)"]
      waterTotal == Add(waterGCS, waterRefinery)
      elecGenerated == v["Electrical Generated (kWh)"]
      hsdPumps == v["HSD Consumption - Pumps (KL)"]
      hsdGensets == v["HSD Consumption - Emergency Diesel Gensets (KL)"]
      hsdTotalConsumed == Add(hsdPumps, hsdGensets)
      hsdIssuedFire == v["HSD Issued - Fire Section (KL)"]
      hsdIssuedPSA == v["HSD Issued - PSA (KL)"]
      hsdIssuedOthers == v["HSD Issued - Others (KL)"]
      hsdTotalIssued == Add(Add(hsdIssuedFire, hsdIssuedPSA), hsdIssuedOthers)
      energyFromGasMMBTU == Mul(gasTotalInternal, SCM_TO_MMBTU)
      energyFromHSDMMBTU == EnergyFromHSD(hsdTotalConsumed)
      totalEnergyExpendedMMBTU ==
        TotalEnergyExpended(energyFromGasMMBTU, energyFromHSDMMBTU)
      gasProduced == v["Gas Production (SCM)"]
      oilProduced == v["Oil Production (Barrels)"]
      energyFromGasProdMMBTU == Mul(gasProduced, SCM_TO_MMBTU)
      energyFromOilProdMMBTU == Mul(oilProduced, BARREL_TO_MMBTU_OIL)
      totalEnergyProducedMMBTU == Add(energyFromGasProdMMBTU, energyFromOilProdMMBTU)
      elecImported == v["APSEB Electricity Imported (kWh)"]
      scope1Tonnes == Scope1Tonnes(gasTotalInternal, hsdTotalConsumed)
      scope2Tonnes == Div(Mul(elecImported, GRID_ELEC_KGCO2_PER_KWH), Num(1000))
      ghgTotal == Add(scope1Tonnes, scope2Tonnes)
      expectedEnergyMMBTU == v["Expected Energy Consumption (MMBTU)"]
      sec == Sec(energyFromGasMMBTU, totalEnergyProducedMMBTU)
      eii == Eii(totalEnergyExpendedMMBTU, expectedEnergyMMBTU)
      emissionIntensity == EmissionIntensity(ghgTotal, gasProduced)
  IN  [ plantName |-> OrElse(raw[H_Plant], UnknownPlant),
        date |-> OrElse(raw[H_Date], UnknownDate),
        gasFlared |-> gasFlared,
        gasBoiler |-> gasBoiler, gasFurnace |-> gasFurnace, gasGDU |-> gasGDU,
        gasEngine |-> gasEngine, gasCompressor |-> gasCompressor,
        gasTotalInternal |-> gasTotalInternal,
        elecGCS |-> elecGCS, elecETP |-> elecETP, elecRefinery |-> elecRefinery,
        elecTotalConsumed |-> elecTotalConsumed,
        waterGCS |-> waterGCS, waterRefinery |-> waterRefinery,
        waterTotal |-> waterTotal,
        elecGenerated |-> elecGenerated,
        hsdPumps |-> hsdPumps, hsdGensets |-> hsdGensets,
        hsdTotalConsumed |-> hsdTotalConsumed,
        hsdIssuedFire |-> hsdIssuedFire, hsdIssuedPSA |-> hsdIssuedPSA,
        hsdIssuedOthers |-> hsdIssuedOthers, hsdTotalIssued |-> hsdTotalIssued,
        energyFromGasMMBTU |-> energyFromGasMMBTU,
        energyFromHSDMMBTU |-> energyFromHSDMMBTU,
        totalEnergyExpendedMMBTU |-> totalEnergyExpendedMMBTU,
        gasProduced |-> gasProduced, oilProduced |-> oilProduced,
        energyFromGasProdMMBTU |-> energyFromGasProdMMBTU,
        energyFromOilProdMMBTU |-> energyFromOilProdMMBTU,
        totalEnergyProducedMMBTU |-> totalEnergyProducedMMBTU,
        elecImported |-> elecImported,
        ghgScope1 |-> scope1Tonnes, ghgScope2 |-> scope2Tonnes,
        ghgTotal |-> ghgTotal,
        expectedEnergyMMBTU |-> expectedEnergyMMBTU,
        sec |-> sec, eii |-> eii, emissionIntensity |-> emissionIntensity ]

processPlantData(raw) ==
  ProcessedRecord(raw, [h \in NumericHeaders |-> safeFloat(raw[h])])

\* The numeric fields of a ProcessedPlantData.
NumericFields ==
  { "gasFlared", "gasBoiler", "gasFurnace", "gasGDU", "gasEngine",
    "gasCompressor", "gasTotalInternal", "elecGCS", "elecETP", "elecRefinery",
    "elecTotalConsumed", "waterGCS", "waterRefinery", "waterTotal",
    "elecGenerated", "hsdPumps", "hsdGensets", "hsdTotalConsumed",
    "hsdIssuedFire", "hsdIssuedPSA", "hsdIssuedOthers", "hsdTotalIssued",
    "energyFromGasMMBTU", "energyFromHSDMMBTU", "totalEnergyExpendedMMBTU",
    "gasProduced", "oilProduced", "energyFromGasProdMMBTU",
    "energyFromOilProdMMBTU", "totalEnergyProducedMMBTU", "elecImported",
    "ghgScope1", "ghgScope2", "ghgTotal", "expectedEnergyMMBTU", "sec", "eii",
    "emissionIntensity" }

getBlankPlantData ==
  [f \in NumericFields \cup {"plantName", "date"} |->
     IF f = "plantName" THEN StrCell(<<"S", "e", "l", "e", "c", "t", " ", "P", "l", "a", "n", "t">>)
     ELSE IF f = "date" THEN StrCell(<<"S", "e", "l", "e", "c", "t", " ", "D", "a", "t", "e">>)
     ELSE Zero]


\* ------------------------------------------------------------------------
\* Dates.  A time value (Date.getTime()) is counted in minutes since the
\* epoch: every time value of the model is a whole number of minutes.  The
\* local time zone is a fixed offset tz (minutes east of UTC).
\* ------------------------------------------------------------------------

\* A Date object holding time value t.
DateCell(t) == [k |-> "date", t |-> t]

MinutesPerDay == 1440

\* Floor division (the divisor is positive).
FloorDiv(a, b) == IF a >= 0 THEN a \div b ELSE -((-a + b - 1) \div b)

\* Days since the epoch of the first day of month m (1..12) of year y,
\* plus day - 1: the day number Date.UTC(y, m - 1, day) stands for (day may
\* lie outside the month: the date rolls over).
DaysFromCivil(y, m, day) ==
  LET yy  == IF m <= 2 THEN y - 1 ELSE y
      era == FloorDiv(yy, 400)
      yoe == yy - era * 400
      mp  == IF m > 2 THEN m - 3 ELSE m + 9
      doy == (153 * mp + 2) \div 5
      doe == yoe * 365 + yoe \div 4 - yoe \div 100 + doy
  IN  era * 146097 + doe - 719468 + (day - 1)

\* The calendar fields [year, month (1..12), day] of day number z, computed
\* in steps: the era, the day and the year of the era, the day of the year.
CivilOfMonth(era, yoe, doy, mp) ==
  [ year  |-> yoe + era * 400 + (IF mp < 10 THEN 0 ELSE 1),
    month |-> IF mp < 10 THEN mp + 3 ELSE mp - 9,
    day   |-> doy - (153 * mp + 2) \div 5 + 1 ]

CivilOfDoy(era, yoe, doy) == CivilOfMonth(era, yoe, doy, (5 * doy + 2) \div 153)

CivilOfYoe(era, doe, yoe) ==
  CivilOfDoy(era, yoe, doe - (365 * yoe + yoe \div 4 - yoe \div 100))

CivilOfDoe(era, doe) ==
  CivilOfYoe(era, doe,
    (doe - doe \div 1460 + doe \div 36524 - doe \div 146096) \div 365)

CivilOfEra(zz, era) == CivilOfDoe(era, zz - era * 146097)

CivilFromDays(z) == CivilOfEra(z + 719468, FloorDiv(z + 719468, 146097))

\* getFullYear / getMonth (1..12 here) / getDate of time value t in the
\* local time zone.
LocalFields(t, zone) == CivilFromDays(FloorDiv(t + zone, MinutesPerDay))

DigitChar(v) ==
  CASE v = 0 -> "0" [] v = 1 -> "1" [] v = 2 -> "2" [] v = 3 -> "3"
    [] v = 4 -> "4" [] v = 5 -> "5" [] v = 6 -> "6" [] v = 7 -> "7"
    [] v = 8 -> "8" [] v = 9 -> "9"

\* Number.prototype.toString of a non-negative integer.
RECURSIVE NatToString(_)
NatToString(v) ==
  IF v < 10 THEN <<DigitChar(v)>>
  ELSE Append(NatToString(v \div 10), DigitChar(v % 10))

\* s.padStart(2, "0")
PadStart2(s) == IF Len(s) < 2 THEN <<"0">> \o s ELSE s

\* s.slice(-2)
SliceLast2(s) == IF Len(s) <= 2 THEN s ELSE SubSeq(s, Len(s) - 1, Len(s))

\* toLocaleString("en-US", {month: "short"}) for month m (1..12).
MonthShort(m) ==
  CASE m = 1 -> <<"J", "a", "n">>
    [] m = 2 -> <<"F", "e", "b">>
    [] m = 3 -> <<"M", "a", "r">>
    [] m = 4 -> <<"A", "p", "r">>
    [] m = 5 -> <<"M", "a", "y">>
    [] m = 6 -> <<"J", "u", "n">>
    [] m = 7 -> <<"J", "u", "l">>
    [] m = 8 -> <<"A", "u", "g">>
    [] m = 9 -> <<"S", "e", "p">>
    [] m = 10 -> <<"O", "c", "t">>
    [] m = 11 -> <<"N", "o", "v">>
    [] m = 12 -> <<"D", "e", "c">>

\* `${day}-${month}-${year}`
FormatFields(f) ==
  PadStart2(NatToString(f.day)) \o <<"-">> \o MonthShort(f.month)
    \o <<"-">> \o SliceLast2(NatToString(f.year))

\* The canonical string of the local calendar fields of time value t.
FormatDate(t, zone) == FormatFields(LocalFields(t, zone))

TwelveHours == 12 * 60

\* dataService.readDataFile, the Date branch: shift by 12 hours, then take
\* the local fields.
NormalizeDateObject_NoShift(t, zone) == FormatDate(t, zone)

NormalizeDateObject(t, zone) == FormatDate(t + TwelveHours, zone)

SerialToTime_NoShift(serial) ==
  LET x == Add(serial, Num(-25569))
  IN  FloorDiv(x.n * MinutesPerDay, x.d)

\* Math.round((serial - 25569) * 86400 * 1000) + 12 h, in minutes, for a
\* serial whose day fraction is a whole number of minutes.
SerialToTime(serial) ==
  LET x == Add(serial, Num(-25569))
  IN  FloorDiv(x.n * MinutesPerDay, x.d) + TwelveHours

NormalizeDateCell_NoThreshold(c, zone) ==
  IF ~Truthy(c) THEN c
  ELSE IF c.k = "date" THEN StrCell(NormalizeDateObject(c.t, zone))
  ELSE IF c.k = "number" THEN StrCell(FormatDate(SerialToTime(c.v), zone))
  ELSE c

\* dataService.readDataFile, the post-processing of one row's Date cell.
NormalizeDateCell(c, zone) ==
  IF ~Truthy(c) THEN c
  ELSE IF c.k = "date" THEN StrCell(NormalizeDateObject(c.t, zone))
  ELSE IF c.k = "number"
       THEN (IF Gt(c.v, Num(30000))
             THEN StrCell(FormatDate(SerialToTime(c.v), zone))
             ELSE c)
  ELSE c

NormalizeRow(row, zone) ==
  [row EXCEPT ![H_Date] = NormalizeDateCell(row[H_Date], zone)]

\* dateStr.split("-")
RECURSIVE SplitDash(_)
SplitDash(s) ==
  IF \A i \in 1..Len(s) : s[i] # "-" THEN <<s>>
  ELSE LET i == CHOOSE j \in 1..Len(s) :
                  s[j] = "-" /\ \A q \in 1..(j - 1) : s[q] # "-"
       IN  <<SubSeq(s, 1, i - 1)>> \o SplitDash(SubSeq(s, i + 1, Len(s)))

\* parseInt(s, 10): white space, a sign, then the decimal digits s[i1..ie-1].
ParseIntDigits(s, sign, i1, ie) ==
  IF ie = i1 THEN NaN ELSE Num(sign * DigitsValue(s, i1, ie - 1))

ParseIntUnsigned(s, sign, i1) == ParseIntDigits(s, sign, i1, DigitsEnd(s, i1))

ParseIntSigned(s, i0) ==
  ParseIntUnsigned(s,
    IF i0 <= Len(s) /\ s[i0] = "-" THEN -1 ELSE 1,
    IF i0 <= Len(s) /\ s[i0] \in {"+", "-"} THEN i0 + 1 ELSE i0)

ParseInt10(s) == ParseIntSigned(s, SkipWhiteSpace(s, 1))

MonthIndex_AlwaysJan(monthStr) == 0

\* The months table of parseDateString; an unknown month counts as 0 (Jan).
MonthIndex(monthStr) ==
  IF monthStr = <<"J", "a", "n">> THEN 0
  ELSE IF monthStr = <<"F", "e", "b">> THEN 1
  ELSE IF monthStr = <<"M", "a", "r">> THEN 2
  ELSE IF monthStr = <<"A", "p", "r">> THEN 3
  ELSE IF monthStr = <<"M", "a", "y">> THEN 4
  ELSE IF monthStr = <<"J", "u", "n">> THEN 5
  ELSE IF monthStr = <<"J", "u", "l">> THEN 6
  ELSE IF monthStr = <<"A", "u", "g">> THEN 7
  ELSE IF monthStr = <<"S", "e", "p">> THEN 8
  ELSE IF monthStr = <<"O", "c", "t">> THEN 9
  ELSE IF monthStr = <<"N", "o", "v">> THEN 10
  ELSE IF monthStr = <<"D", "e", "c">> THEN 11
  ELSE 0

\* new Date(Date.UTC(year, month, day)).getTime()
DateUTC(year, month, day) ==
  IF IsNaN(year) \/ IsNaN(day) THEN NaN
  ELSE Num(DaysFromCivil(year.n, month + 1, day.n) * MinutesPerDay)

ParseDateParts_NoSentinel(parts) ==
  DateUTC(Add(Num(2000), ParseInt10(parts[Len(parts)])),
          MonthIndex(IF Len(parts) >= 2 THEN parts[2] ELSE <<>>),
          ParseInt10(parts[1]))

\* App.parseDateString, once the string is split.
ParseDateParts(parts) ==
  IF Len(parts) # 3 THEN Zero
  ELSE DateUTC(Add(Num(2000), ParseInt10(parts[3])),
               MonthIndex(parts[2]),
               ParseInt10(parts[1]))

\* App.parseDateString, applied to a string.
parseDateString(dateStr) == ParseDateParts(SplitDash(dateStr))

\* ------------------------------------------------------------------------
\* App: derived data
\* ------------------------------------------------------------------------

EmptyString == StrCell(<<>>)

Unique_KeepAll(values) == values

\* Array.from(new Set(values)): the distinct values, in first-occurrence order.
RECURSIVE Unique(_)
Unique(values) ==
  IF values = <<>> THEN <<>>
  ELSE LET init == Unique(SubSeq(values, 1, Len(values) - 1))
           last == values[Len(values)]
       IN  IF \E i \in 1..Len(init) : init[i] = last THEN init
           ELSE Append(init, last)

DatesOf(data) == [i \in 1..Len(data) |-> data[i].date]

\* parseDateString calls dateStr.split: it throws on a date that is no
\* string.  The comparator runs on every element once there are two.
SortThrows(dates) ==
  Len(dates) >= 2 /\ \E i \in 1..Len(dates) : dates[i].k # "string"

DateKey(c) == parseDateString(c.s)

\* (a, b) => parseDateString(a) - parseDateString(b), as sort reads it:
\* a NaN result counts as 0.
CompareDates(a, b) ==
  LET ka == DateKey(a)
      kb == DateKey(b)
  IN  IF IsNaN(ka) \/ IsNaN(kb) THEN 0 ELSE Sgn(ka.n - kb.n)

RECURSIVE InsertSorted(_, _)
InsertSorted(sorted, x) ==
  IF sorted = <<>> THEN <<x>>
  ELSE IF CompareDates(sorted[Len(sorted)], x) <= 0 THEN Append(sorted, x)
  ELSE Append(InsertSorted(SubSeq(sorted, 1, Len(sorted) - 1), x),
              sorted[Len(sorted)])

StableSort_Unsorted(dates) == dates

RECURSIVE StableSort(_)
StableSort(dates) ==
  IF dates = <<>> THEN <<>>
  ELSE InsertSorted(StableSort(SubSeq(dates, 1, Len(dates) - 1)),
                    dates[Len(dates)])

Reorderings(dates) ==
  { [i \in 1..Len(dates) |-> dates[p[i]]] :
      p \in { q \in [1..Len(dates) -> 1..Len(dates)] :
                \A i, j \in 1..Len(dates) : i # j => q[i] # q[j] } }

\* The arrays dates.sort(comparator) can produce, for string dates: the
\* stable sort by key when every key is a number; with a NaN key the
\* comparator is inconsistent and the order is implementation-defined.
SortResults(dates) ==
  IF Len(dates) < 2 THEN {dates}
  ELSE IF \E i \in 1..Len(dates) : IsNaN(DateKey(dates[i]))
  THEN Reorderings(dates)
  ELSE {StableSort(dates)}

\* allData.find(p => p.date === date), as a sequence holding the hit or nothing.
RECURSIVE FindByDate(_, _)
FindByDate(data, date) ==
  IF data = <<>> THEN <<>>
  ELSE IF data[1].date = date THEN <<data[1]>>
  ELSE FindByDate(Tail(data), date)

\* The values the Date dropdown offers (besides the empty one).
AvailableDateOptions(data) == {DatesOf(data)[i] : i \in 1..Len(data)}

\* App.availableDates: the arrays the memo can hold; none when the sort throws.
availableDates(data) ==
  IF SortThrows(Unique(DatesOf(data))) THEN {}
  ELSE SortResults(Unique(DatesOf(data)))

\* allData.filter(d => d.date === selectedDate).map(d => d.plantName)
RECURSIVE PlantsFor(_, _)
PlantsFor(data, date) ==
  IF data = <<>> THEN <<>>
  ELSE IF data[1].date = date
       THEN <<data[1].plantName>> \o PlantsFor(Tail(data), date)
  ELSE PlantsFor(Tail(data), date)

availablePlants_Deduped(data, date) == Unique(PlantsFor(data, date))

availablePlants(data, date) == IF ~Truthy(date) THEN <<>> ELSE PlantsFor(data, date)

\* allData.find(d => d.date === selectedDate && d.plantName === selectedPlantName),
\* as a sequence holding the hit or nothing.
RECURSIVE FindRecord(_, _, _)
FindRecord(data, date, plant) ==
  IF data = <<>> THEN <<>>
  ELSE IF data[1].date = date /\ data[1].plantName = plant THEN <<data[1]>>
  ELSE FindRecord(Tail(data), date, plant)

currentPlantData_DateOnly(data, date, plant) ==
  IF FindByDate(data, date) # <<>> THEN FindByDate(data, date)[1]
  ELSE getBlankPlantData

\* App.currentPlantData: found || getBlankPlantData()
currentPlantData(data, date, plant) ==
  IF FindRecord(data, date, plant) # <<>> THEN FindRecord(data, date, plant)[1]
  ELSE getBlankPlantData

RECURSIVE ValidData_AnySec(_, _)
ValidData_AnySec(data, date) ==
  IF data = <<>> THEN <<>>
  ELSE IF data[1].date = date
       THEN <<data[1]>> \o ValidData_AnySec(Tail(data), date)
  ELSE ValidData_AnySec(Tail(data), date)

\* allData.filter(d => d.sec > 0 && d.date === selectedDate)
RECURSIVE ValidData(_, _)
ValidData(data, date) ==
  IF data = <<>> THEN <<>>
  ELSE IF Gt(data[1].sec, Zero) /\ data[1].date = date
       THEN <<data[1]>> \o ValidData(Tail(data), date)
  ELSE ValidData(Tail(data), date)

\* The scan of secStats from element i on, with the minimum so far.
RECURSIVE ScanMin(_, _, _)
ScanMin(valid, i, min) ==
  IF i > Len(valid) THEN min
  ELSE ScanMin(valid, i + 1, IF Gt(min.sec, valid[i].sec) THEN valid[i] ELSE min)

RECURSIVE ScanMax(_, _, _)
ScanMax(valid, i, max) ==
  IF i > Len(valid) THEN max
  ELSE ScanMax(valid, i + 1, IF Gt(valid[i].sec, max.sec) THEN valid[i] ELSE max)

MinMaxOf(valid) ==
  IF valid = <<>> THEN <<>>
  ELSE << [min |-> ScanMin(valid, 1, valid[1]), max |-> ScanMax(valid, 1, valid[1])] >>

\* App.secStats: <<>> for null, else the record {min, max} in a sequence.
secStats(data, date) ==
  IF ~Truthy(date) THEN <<>> ELSE MinMaxOf(ValidData(data, date))

\* The value attribute of an <option>: the string of the value.
OptionValue(c) ==
  IF c.k = "number" /\ IsFinite(c.v) /\ c.v.d = 1 /\ c.v.n >= 0
  THEN StrCell(NatToString(c.v.n))
  ELSE c

\* Rendering computes availableDates: the sort throws on a non-string date.
RenderThrows(data) == SortThrows(Unique(DatesOf(data)))

\* ------------------------------------------------------------------------
\* Input files
\* ------------------------------------------------------------------------

\* Uploads whose file reads overlap.
MaxInFlight == 2

\* Plain number cells range over -1..MaxQty.
MaxQty == 2

TimeZones == {-480, 0, 330, 780}

EmptyRow == [h \in Headers |-> Undefined]

MkRow(plant, date, boiler, pumps, imported, gasProd, expected) ==
  [h \in Headers |->
     CASE h = H_Plant -> StrCell(plant)
       [] h = H_Date -> date
       [] h = "Gas Consumption - Boiler (SCM)" -> NumCell(Num(boiler))
       [] h = "HSD Consumption - Pumps (KL)" -> NumCell(Num(pumps))
       [] h = "APSEB Electricity Imported (kWh)" -> NumCell(Num(imported))
       [] h = "Gas Production (SCM)" -> NumCell(Num(gasProd))
       [] h = "Expected Energy Consumption (MMBTU)" -> NumCell(Num(expected))
       [] OTHER -> NumCell(Zero)]

Oct01 == StrCell(<<"0", "1", "-", "O", "c", "t", "-", "2", "5">>)

Oct05 == StrCell(<<"0", "5", "-", "O", "c", "t", "-", "2", "5">>)

Nov01 == StrCell(<<"0", "1", "-", "N", "o", "v", "-", "2", "5">>)

Oct01_26 == StrCell(<<"0", "1", "-", "O", "c", "t", "-", "2", "6">>)

WellFormedTexts == { Oct01, Oct05, Nov01, Oct01_26 }

\* Date texts that are not DD-Mon-YY: with one, two and four segments, and
\* with three segments (month first, unknown month, ISO order, day 32).
SlashDate == StrCell(<<"0", "1", "/", "1", "0", "/", "2", "0", "2", "5">>)

TwoSegments == StrCell(<<"0", "1", "-", "O", "c", "t">>)

FourSegments == StrCell(<<"1", "-", "1", "0", "-", "2", "0", "-", "2", "5">>)

MonthFirst == StrCell(<<"O", "c", "t", "-", "0", "1", "-", "2", "5">>)

UnknownMonth == StrCell(<<"0", "1", "-", "F", "o", "o", "-", "2", "5">>)

IsoDate == StrCell(<<"2", "0", "2", "5", "-", "1", "0", "-", "0", "1">>)

Day32 == StrCell(<<"3", "2", "-", "O", "c", "t", "-", "2", "5">>)

MalformedTexts ==
  { SlashDate, TwoSegments, FourSegments, MonthFirst, UnknownMonth, IsoDate, Day32 }

\* Plant A on 01-Oct-25: boiler gas 100, HSD pumps 10, imported electricity
\* 500, gas produced 200, expected energy 50, everything else 0.
ExampleRow == MkRow(<<"A">>, Oct01, 100, 10, 500, 200, 50)

FileA ==
  [ name |-> "A", kind |-> "workbook",
    rows |-> << ExampleRow, MkRow(<<"B">>, Oct01, 50, 0, 100, 100, 20) >> ]

\* Dates as a Date object (01-Nov-25, UTC midnight), a serial (45931 is
\* 01-Oct-25) and text.
FileB ==
  [ name |-> "B", kind |-> "workbook",
    rows |-> << MkRow(<<"B">>, DateCell(DaysFromCivil(2025, 11, 1) * MinutesPerDay),
                      80, 2, 0, 300, 40),
                MkRow(<<"A">>, NumCell(Num(45931)), 10, 1, 50, 0, 0),
                MkRow(<<"A">>, Oct05, 20, 0, 0, 40, 10) >> ]

\* A Date column holding a small number, which readDataFile leaves a number.
FileC ==
  [ name |-> "C", kind |-> "workbook",
    rows |-> << MkRow(<<"C">>, NumCell(Num(2025)), 1, 1, 1, 1, 1),
                MkRow(<<"C">>, Oct01, 2, 2, 2, 2, 2) >> ]

FileEmpty == [name |-> "Empty", kind |-> "workbook", rows |-> <<>>]

\* Several plants on 05-Oct-25 with SEC 0.5, 0, 0.75 and 0.1, plant A twice
\* on that date, one plant on 01-Oct-25 and a row without a date.
FileD ==
  [ name |-> "D", kind |-> "workbook",
    rows |-> << MkRow(<<"A">>, Oct05, 100, 0, 0, 200, 50),
                MkRow(<<"B">>, Oct01, 50, 0, 0, 200, 20),
                MkRow(<<"C">>, Oct05, 10, 0, 0, 0, 0),
                MkRow(<<"B">>, Oct05, 150, 0, 0, 200, 10),
                MkRow(<<"A">>, Oct05, 20, 1, 0, 200, 5),
                MkRow(<<"D">>, Undefined, 10, 0, 0, 100, 0) >> ]

\* A date text written month first (Oct-01-25) among well-formed ones.
FileE ==
  [ name |-> "E", kind |-> "workbook",
    rows |-> << MkRow(<<"A">>, MonthFirst, 30, 0, 0, 100, 10),
                MkRow(<<"B">>, Oct05, 40, 0, 0, 100, 10),
                MkRow(<<"C">>, Oct01, 50, 0, 0, 100, 10) >> ]

\* A file XLSX.read throws on.
FileCorrupt == [name |-> "Corrupt", kind |-> "corrupt", rows |-> <<>>]

Files == {FileA, FileB, FileC, FileD, FileE, FileEmpty, FileCorrupt}

FileNames == {f.name : f \in Files}

FileNamed(n) == CHOOSE f \in Files : f.name = n

\* ------------------------------------------------------------------------
\* State
\* ------------------------------------------------------------------------

VARIABLES
  allData,            \* useState<ProcessedPlantData[]>([])
  selectedDate,       \* useState('')
  selectedPlantName,  \* useState('')
  energyUnit,         \* useState('MMBTU')
  reading,            \* file name -> number of its reads still in flight
  alerted,            \* the "Error reading file" alert has been shown
  crashed,            \* a render threw: the component tree is unmounted
  tz,                 \* the browser's time zone offset
  raw,                \* a raw row handed to processPlantData
  out,                \* <<processPlantData(raw)>>, or <<>> before the call
  raw2,               \* a second raw row, <<>> before it is chosen
  out2,               \* <<processPlantData(raw2[1])>>, or <<>>
  isAnalysisOpen,     \* useState(false)
  analysisResult,     \* useState<string | null>(null)
  isAnalyzing,        \* useState(false)
  requests,           \* the calls of generatePlantAnalysis, in starting order
  csvText,            \* a text handed to parseCSV
  csvData             \* <<parseCSV(csvText)>>, or <<>> before the call

appVars == <<allData, selectedDate, selectedPlantName, energyUnit, reading,
             alerted, crashed, tz>>

rowVars == <<raw, out, raw2, out2>>

analysisVars == <<isAnalysisOpen, analysisResult, isAnalyzing, requests>>

csvVars == <<csvText, csvData>>

vars == <<allData, selectedDate, selectedPlantName, energyUnit, reading,
          alerted, crashed, tz, raw, out, raw2, out2,
          isAnalysisOpen, analysisResult, isAnalyzing, requests,
          csvText, csvData>>


\* ------------------------------------------------------------------------
\* dataService.readDataFile and App.handleFileUpload
\* ------------------------------------------------------------------------

\* What the promise of readDataFile resolves to once the reader has loaded
\* the file: [] when XLSX.read throws, else the rows with their Date cells
\* normalized.
readDataFile(f, zone) ==
  IF f.kind = "corrupt" THEN <<>>
  ELSE [i \in 1..Len(f.rows) |-> NormalizeRow(f.rows[i], zone)]

\* raw.map(processPlantData)
ProcessAll(rows) == [i \in 1..Len(rows) |-> processPlantData(rows[i])]

SetAllData_Merge(old, processed) == old \o processed

\* setAllData(processed)
SetAllData(old, processed) == processed

RECURSIVE SumReading(_)
SumReading(S) ==
  IF S = {} THEN 0
  ELSE LET n == CHOOSE x \in S : TRUE
       IN  reading[n] + SumReading(S \ {n})

\* <input type="file" onChange>: a file was chosen; readAsArrayBuffer starts.
ChooseFile(n) ==
  /\ ~crashed
  /\ SumReading(FileNames) < MaxInFlight
  /\ reading' = [reading EXCEPT ![n] = @ + 1]
  /\ UNCHANGED <<allData, selectedDate, selectedPlantName, energyUnit, alerted,
                 crashed, tz, raw, out, raw2, out2>>
  /\ UNCHANGED <<isAnalysisOpen, analysisResult, isAnalyzing, requests,
                 csvText, csvData>>

\* onChange with no file: handleFileUpload does nothing.
ChooseNothing ==
  /\ ~crashed
  /\ UNCHANGED vars

\* handleFileUpload's auto-selection, given the unique dates of processed.
AutoSelect(processed, uniqueDates) ==
  IF SortThrows(uniqueDates)
  THEN /\ alerted' = TRUE
       /\ UNCHANGED <<selectedDate, selectedPlantName>>
  ELSE \E sorted \in SortResults(uniqueDates) :
         /\ selectedDate' = sorted[1]
         /\ selectedPlantName' =
              IF FindByDate(processed, sorted[1]) # <<>>
                 /\ Truthy(FindByDate(processed, sorted[1])[1].plantName)
              THEN FindByDate(processed, sorted[1])[1].plantName
              ELSE selectedPlantName
         /\ UNCHANGED alerted

\* handleFileUpload after the await: processed is raw.map(processPlantData).
AfterAwait(processed) ==
  /\ allData' = SetAllData(allData, processed)
  /\ IF processed = <<>>
     THEN UNCHANGED <<selectedDate, selectedPlantName, alerted>>
     ELSE AutoSelect(processed, Unique(DatesOf(processed)))

\* reader.onload, and with it the rest of handleFileUpload after the await.
UploadLoaded(n) ==
  /\ ~crashed
  /\ reading[n] > 0
  /\ reading' = [reading EXCEPT ![n] = @ - 1]
  /\ AfterAwait(ProcessAll(readDataFile(FileNamed(n), tz)))
  /\ crashed' = RenderThrows(allData')
  /\ UNCHANGED <<energyUnit, tz, raw, out, raw2, out2>>
  /\ UNCHANGED <<isAnalysisOpen, analysisResult, isAnalyzing, requests,
                 csvText, csvData>>

\* reader.onerror: the promise rejects and handleFileUpload alerts.
UploadFailed(n) ==
  /\ ~crashed
  /\ reading[n] > 0
  /\ reading' = [reading EXCEPT ![n] = @ - 1]
  /\ alerted' = TRUE
  /\ UNCHANGED <<allData, selectedDate, selectedPlantName, energyUnit, crashed,
                 tz, raw, out, raw2, out2>>
  /\ UNCHANGED <<isAnalysisOpen, analysisResult, isAnalyzing, requests,
                 csvText, csvData>>

SelectDate_KeepPlant(v) ==
  /\ ~crashed
  /\ selectedDate' = v
  /\ UNCHANGED <<allData, selectedPlantName, energyUnit, reading, alerted,
                 crashed, tz, raw, out, raw2, out2>>
  /\ UNCHANGED <<isAnalysisOpen, analysisResult, isAnalyzing, requests,
                 csvText, csvData>>

\* The Date dropdown's onChange.
SelectDate(v) ==
  /\ ~crashed
  /\ selectedDate' = v
  /\ selectedPlantName' = EmptyString
  /\ UNCHANGED <<allData, energyUnit, reading, alerted, crashed, tz, raw, out,
                 raw2, out2>>
  /\ UNCHANGED <<isAnalysisOpen, analysisResult, isAnalyzing, requests,
                 csvText, csvData>>

\* The Plant dropdown's onChange (the dropdown is disabled without a date).
SelectPlant(v) ==
  /\ ~crashed
  /\ Truthy(selectedDate)
  /\ selectedPlantName' = v
  /\ UNCHANGED <<allData, selectedDate, energyUnit, reading, alerted, crashed,
                 tz, raw, out, raw2, out2>>
  /\ UNCHANGED <<isAnalysisOpen, analysisResult, isAnalyzing, requests,
                 csvText, csvData>>

\* App.formatEnergy
formatEnergy(valMMBTU, unit) ==
  IF unit = "GJ" THEN Mul(valMMBTU, MMBTU_TO_GJ) ELSE valMMBTU

SetEnergyUnit_Converting(u) ==
  /\ ~crashed
  /\ energyUnit' = u
  /\ allData' = [i \in 1..Len(allData) |->
       [allData[i] EXCEPT !.totalEnergyExpendedMMBTU = formatEnergy(@, u)]]
  /\ UNCHANGED <<selectedDate, selectedPlantName, reading, alerted,
                 crashed, tz, raw, out, raw2, out2>>
  /\ UNCHANGED <<isAnalysisOpen, analysisResult, isAnalyzing, requests,
                 csvText, csvData>>

\* The MMBTU / GJ buttons.
SetEnergyUnit(u) ==
  /\ ~crashed
  /\ energyUnit' = u
  /\ UNCHANGED <<allData, selectedDate, selectedPlantName, reading, alerted,
                 crashed, tz, raw, out, raw2, out2>>
  /\ UNCHANGED <<isAnalysisOpen, analysisResult, isAnalyzing, requests,
                 csvText, csvData>>

DateChoices == {EmptyString} \cup {OptionValue(d) : d \in AvailableDateOptions(allData)}

PlantChoices ==
  {EmptyString} \cup
  { OptionValue(availablePlants(allData, selectedDate)[i]) :
      i \in 1..Len(availablePlants(allData, selectedDate)) }

AppInit ==
  /\ allData = <<>>
  /\ selectedDate = EmptyString
  /\ selectedPlantName = EmptyString
  /\ energyUnit = "MMBTU"
  /\ reading = [n \in FileNames |-> 0]
  /\ alerted = FALSE
  /\ crashed = FALSE
  /\ isAnalysisOpen = FALSE
  /\ analysisResult = Null
  /\ isAnalyzing = FALSE
  /\ requests = <<>>
  /\ csvData = <<>>

Init ==
  /\ AppInit
  /\ csvText = <<>>
  /\ tz \in TimeZones
  /\ raw = ExampleRow
  /\ out = <<>>
  /\ raw2 = <<>>
  /\ out2 = <<>>

Next ==
  \/ \E n \in FileNames : ChooseFile(n)
  \/ ChooseNothing
  \/ \E n \in FileNames : UploadLoaded(n)
  \/ \E n \in FileNames : UploadFailed(n)
  \/ \E v \in DateChoices : SelectDate(v)
  \/ \E v \in PlantChoices : SelectPlant(v)
  \/ \E u \in {"MMBTU", "GJ"} : SetEnergyUnit(u)

Spec == Init /\ [][Next]_vars

\* The application in one time zone, UTC+05:30.
OneZoneInit ==
  /\ AppInit
  /\ csvText = <<>>
  /\ tz = 330
  /\ raw = ExampleRow
  /\ out = <<>>
  /\ raw2 = <<>>
  /\ out2 = <<>>

OneZoneSpec == OneZoneInit /\ [][Next]_vars

\* ------------------------------------------------------------------------
\* processPlantData applied to single rows
\* ------------------------------------------------------------------------

TextCells ==
  { StrCell(<<>>),
    StrCell(<<"a", "b", "c">>),
    StrCell(<<" ", "1", "2">>),
    StrCell(<<"1", ".", "5", "x">>),
    StrCell(<<"-", ".", "5">>),
    StrCell(<<"2", "e", "1">>),
    StrCell(<<"I", "n", "f", "i", "n", "i", "t", "y">>),
    StrCell(<<"-", "I", "n", "f", "i", "n", "i", "t", "y">>),
    StrCell(<<"1", "e", "9", "9", "9">>) }

NumberCells == {NumCell(Num(k)) : k \in -1..MaxQty} \cup {NumCell(Rat(5, 2))}

Cells == {Undefined, Null} \cup NumberCells \cup TextCells

\* The cells a second row may hold where it differs from the first.
VariantCells ==
  { Undefined, NumCell(Zero), NumCell(Num(-1)), NumCell(Num(MaxQty)),
    StrCell(<<"1", ".", "5", "x">>),
    StrCell(<<"-", "I", "n", "f", "i", "n", "i", "t", "y">>) }

BaseRows == {ExampleRow, EmptyRow}

\* The cells a row may hold in its Plant Name or Date column.
IdentityCells ==
  { Undefined, Null, StrCell(<<>>), StrCell(<<" ">>), StrCell(<<"P", "1">>),
    NumCell(Zero), NumCell(Num(7)), NumCell(NaN) }

H_HsdPumps == "HSD Consumption - Pumps (KL)"

H_HsdGensets == "HSD Consumption - Emergency Diesel Gensets (KL)"

ProcessRow_WritingBack ==
  /\ out = <<>>
  /\ out' = <<processPlantData(raw)>>
  /\ raw' = [raw EXCEPT ![H_Plant] = out'[1].plantName, ![H_Date] = out'[1].date]
  /\ UNCHANGED <<allData, selectedDate, selectedPlantName, energyUnit, reading,
                 alerted, crashed, tz, raw2, out2>>
  /\ UNCHANGED <<isAnalysisOpen, analysisResult, isAnalyzing, requests,
                 csvText, csvData>>

\* processPlantData(raw)
ProcessRow ==
  /\ out = <<>>
  /\ out' = <<processPlantData(raw)>>
  /\ UNCHANGED <<allData, selectedDate, selectedPlantName, energyUnit, reading,
                 alerted, crashed, tz, raw, raw2, out2>>
  /\ UNCHANGED <<isAnalysisOpen, analysisResult, isAnalyzing, requests,
                 csvText, csvData>>

\* processPlantData on a second row, which differs from the first in one cell.
ProcessVariant(h, c) ==
  /\ out # <<>>
  /\ out2 = <<>>
  /\ raw2' = <<[raw EXCEPT ![h] = c]>>
  /\ out2' = <<processPlantData(raw2'[1])>>
  /\ UNCHANGED <<allData, selectedDate, selectedPlantName, energyUnit, reading,
                 alerted, crashed, tz, raw, out>>
  /\ UNCHANGED <<isAnalysisOpen, analysisResult, isAnalyzing, requests,
                 csvText, csvData>>

\* processPlantData(raw), a second time on the same row.
ProcessAgain ==
  /\ out # <<>>
  /\ out2 = <<>>
  /\ raw2' = <<raw>>
  /\ out2' = <<processPlantData(raw)>>
  /\ UNCHANGED <<allData, selectedDate, selectedPlantName, energyUnit, reading,
                 alerted, crashed, tz, raw, out>>
  /\ UNCHANGED <<isAnalysisOpen, analysisResult, isAnalyzing, requests,
                 csvText, csvData>>

\* processPlantData on a second row, which is the first with the cells of
\* its two HSD consumption columns exchanged.
ProcessHsdSwapped ==
  /\ out # <<>>
  /\ out2 = <<>>
  /\ raw2' = <<[raw EXCEPT ![H_HsdPumps] = raw[H_HsdGensets],
                           ![H_HsdGensets] = raw[H_HsdPumps]]>>
  /\ out2' = <<processPlantData(raw2'[1])>>
  /\ UNCHANGED <<allData, selectedDate, selectedPlantName, energyUnit, reading,
                 alerted, crashed, tz, raw, out>>
  /\ UNCHANGED <<isAnalysisOpen, analysisResult, isAnalyzing, requests,
                 csvText, csvData>>

RowInit ==
  /\ AppInit
  /\ csvText = <<>>
  /\ tz = 0
  /\ \E base \in BaseRows, h \in NumericHeaders, c \in Cells :
       raw = [base EXCEPT ![h] = c]
  /\ out = <<>>
  /\ raw2 = <<>>
  /\ out2 = <<>>

RowNext ==
  \/ ProcessRow
  \/ \E h \in NumericHeaders, c \in VariantCells : ProcessVariant(h, c)
  \/ \E h \in {H_Plant, H_Date}, c \in IdentityCells : ProcessVariant(h, c)
  \/ ProcessHsdSwapped
  \/ ProcessAgain

RowSpec == RowInit /\ [][RowNext]_vars

\* ------------------------------------------------------------------------
\* readDataFile and processPlantData applied to the Date cell of single rows
\* ------------------------------------------------------------------------

\* The Date cells range over each anchor day and the MaxDayShift days after it.
MaxDayShift == 1

\* Anchor days <<year, month, day>>: ends of a century, of a leap February,
\* of months and of years, and the days of serials 45901 and 45931.
AnchorDays ==
  { <<1999, 12, 31>>, <<2024, 2, 28>>, <<2025, 9, 1>>, <<2025, 10, 1>>,
    <<2025, 10, 4>>, <<2025, 10, 31>>, <<2025, 12, 31>>, <<2026, 9, 30>>,
    <<2099, 12, 31>> }

\* Day numbers (days since 1970-01-01) of the days the Date cells denote.
DayNumbers ==
  { DaysFromCivil(a[1], a[2], a[3]) + k : a \in AnchorDays, k \in 0..MaxDayShift }

\* Date objects at UTC midnight, as XLSX.read gives with cellDates.
DateObjectCells == { DateCell(z * MinutesPerDay) : z \in DayNumbers }

\* Whole spreadsheet serials of the same days (serial 25569 is 1970-01-01).
SerialCells == { NumCell(Num(z + 25569)) : z \in DayNumbers }

\* Other numbers in the Date column: below, at and just above the
\* threshold, and a serial with a time of day (45901.5).
OtherNumberCells ==
  { NumCell(Zero), NumCell(Num(2025)), NumCell(Num(30000)),
    NumCell(Num(30001)), NumCell(Rat(91803, 2)) }

\* What the Date column of a row may hold (Undefined: no Date column).
DateCellInputs ==
  DateObjectCells \cup SerialCells \cup OtherNumberCells
    \cup WellFormedTexts \cup MalformedTexts \cup {Undefined}

\* readDataFile's post-processing of the row, then processPlantData.
ReadDateRow ==
  /\ out = <<>>
  /\ out' = <<processPlantData(NormalizeRow(raw, tz))>>
  /\ UNCHANGED <<allData, selectedDate, selectedPlantName, energyUnit, reading,
                 alerted, crashed, tz, raw, raw2, out2>>
  /\ UNCHANGED <<isAnalysisOpen, analysisResult, isAnalyzing, requests,
                 csvText, csvData>>

\* The same for a second row, which differs from the first in its Date cell.
ReadSecondDateRow(c) ==
  /\ out # <<>>
  /\ out2 = <<>>
  /\ raw2' = <<[raw EXCEPT ![H_Date] = c]>>
  /\ out2' = <<processPlantData(NormalizeRow(raw2'[1], tz))>>
  /\ UNCHANGED <<allData, selectedDate, selectedPlantName, energyUnit, reading,
                 alerted, crashed, tz, raw, out>>
  /\ UNCHANGED <<isAnalysisOpen, analysisResult, isAnalyzing, requests,
                 csvText, csvData>>

DateInit ==
  /\ AppInit
  /\ csvText = <<>>
  /\ tz \in TimeZones
  /\ \E c \in DateCellInputs : raw = [ExampleRow EXCEPT ![H_Date] = c]
  /\ out = <<>>
  /\ raw2 = <<>>
  /\ out2 = <<>>

DateNext ==
  \/ ReadDateRow
  \/ \E c \in DateCellInputs : ReadSecondDateRow(c)

DateSpec == DateInit /\ [][DateNext]_vars


\* ------------------------------------------------------------------------
\* App.handleRunAnalysis, geminiService.generatePlantAnalysis, and the
\* energy unit of the display
\* ------------------------------------------------------------------------

\* Calls of generatePlantAnalysis started in one behaviour.
MaxRequests == 2

SelectPlantLabel == StrCell(<<"S", "e", "l", "e", "c", "t", " ", "P", "l", "a", "n", "t">>)

\* What the prompt of generatePlantAnalysis is built from: the current
\* record's plant and date, and the plants of allData.filter(date).
PromptOf(cur, peers) ==
  [ plant |-> cur.plantName, date |-> cur.date,
    peers |-> [i \in 1..Len(peers) |-> peers[i].plantName] ]

\* How the call of ai.models.generateContent ends: with a text, with an
\* empty text, or by throwing.
Outcomes == {"text", "empty", "error"}

generatePlantAnalysis_Rethrow(prompt, outcome) ==
  IF outcome = "error" THEN Null
  ELSE IF outcome = "empty" THEN [k |-> "text", kind |-> "could not be generated"]
  ELSE [k |-> "text", kind |-> "commentary", prompt |-> prompt]

\* The string generatePlantAnalysis resolves to: the commentary on the
\* prompt, "Analysis could not be generated." or "Error generating analysis. ..."
generatePlantAnalysis(prompt, outcome) ==
  IF outcome = "error" THEN [k |-> "text", kind |-> "error generating analysis"]
  ELSE IF outcome = "empty" THEN [k |-> "text", kind |-> "could not be generated"]
  ELSE [k |-> "text", kind |-> "commentary", prompt |-> prompt]

\* handleRunAnalysis past its guard, for the current record cur.
StartAnalysis(cur) ==
  /\ Len(requests) < MaxRequests
  /\ isAnalysisOpen' = TRUE
  /\ isAnalyzing' = TRUE
  /\ analysisResult' = Null
  /\ requests' = Append(requests,
       [ prompt |-> PromptOf(cur, ValidData_AnySec(allData, selectedDate)),
         pending |-> TRUE ])
  /\ UNCHANGED <<allData, selectedDate, selectedPlantName, energyUnit, reading,
                 alerted, crashed, tz, raw, out, raw2, out2, csvText, csvData>>

\* handleRunAnalysis up to the await.  The button lies under the overlay of
\* the analysis modal while that is open.
RunAnalysisOn(cur) ==
  IF ~Truthy(cur.plantName) \/ cur.plantName = SelectPlantLabel
  THEN UNCHANGED vars
  ELSE StartAnalysis(cur)

RunAnalysis ==
  /\ ~crashed
  /\ ~isAnalysisOpen
  /\ RunAnalysisOn(currentPlantData(allData, selectedDate, selectedPlantName))

\* The await of request k ends: setAnalysisResult(result), setIsAnalyzing(false).
AnalysisCompleted(k, outcome) ==
  /\ ~crashed
  /\ k \in 1..Len(requests)
  /\ requests[k].pending
  /\ analysisResult' = generatePlantAnalysis(requests[k].prompt, outcome)
  /\ isAnalyzing' = FALSE
  /\ requests' = [requests EXCEPT ![k].pending = FALSE]
  /\ UNCHANGED <<allData, selectedDate, selectedPlantName, energyUnit, reading,
                 alerted, crashed, tz, raw, out, raw2, out2, isAnalysisOpen,
                 csvText, csvData>>

\* The modal's close button: setIsAnalysisOpen(false).
CloseAnalysis ==
  /\ ~crashed
  /\ isAnalysisOpen
  /\ isAnalysisOpen' = FALSE
  /\ UNCHANGED <<allData, selectedDate, selectedPlantName, energyUnit, reading,
                 alerted, crashed, tz, raw, out, raw2, out2, analysisResult,
                 isAnalyzing, requests, csvText, csvData>>

\* The file uploaded while analyses run.
AnalysisFileNames == {"A"}

AnalysisInit ==
  /\ AppInit
  /\ csvText = <<>>
  /\ tz = 0
  /\ raw = ExampleRow
  /\ out = <<>>
  /\ raw2 = <<>>
  /\ out2 = <<>>

AnalysisNext ==
  \/ \E n \in AnalysisFileNames : ChooseFile(n)
  \/ \E n \in AnalysisFileNames : UploadLoaded(n)
  \/ \E n \in AnalysisFileNames : UploadFailed(n)
  \/ \E v \in DateChoices : SelectDate(v)
  \/ \E v \in PlantChoices : SelectPlant(v)
  \/ \E u \in {"MMBTU", "GJ"} : SetEnergyUnit(u)
  \/ RunAnalysis
  \/ \E k \in 1..MaxRequests, o \in Outcomes : AnalysisCompleted(k, o)
  \/ CloseAnalysis

AnalysisSpec == AnalysisInit /\ [][AnalysisNext]_vars

\* Every pending call of generateContent comes to an end: it answers or throws.
FairAnalysisSpec ==
  /\ AnalysisSpec
  /\ \A k \in 1..MaxRequests :
       WF_vars(\E o \in Outcomes : AnalysisCompleted(k, o))

\* ------------------------------------------------------------------------
\* parseCSV
\* ------------------------------------------------------------------------

\* String.prototype.trim
RECURSIVE TrimStart(_)
TrimStart(s) ==
  IF s # <<>> /\ IsWhiteSpace(s[1]) THEN TrimStart(Tail(s)) ELSE s

RECURSIVE TrimEnd(_)
TrimEnd(s) ==
  IF s # <<>> /\ IsWhiteSpace(s[Len(s)]) THEN TrimEnd(SubSeq(s, 1, Len(s) - 1)) ELSE s

Trim(s) == TrimEnd(TrimStart(s))

\* s.split(sep) for a one-character separator: at least one piece.
RECURSIVE SplitOn(_, _)
SplitOn(s, sep) ==
  IF \A i \in 1..Len(s) : s[i] # sep THEN <<s>>
  ELSE LET i == CHOOSE j \in 1..Len(s) :
                  s[j] = sep /\ \A q \in 1..(j - 1) : s[q] # sep
       IN  <<SubSeq(s, 1, i - 1)>> \o SplitOn(SubSeq(s, i + 1, Len(s)), sep)

\* line.split(',').map(v => v.trim())
CsvValues(line) ==
  LET parts == SplitOn(line, ",")
  IN  [i \in 1..Len(parts) |-> Trim(parts[i])]

H_PlantText == <<"P", "l", "a", "n", "t", " ", "N", "a", "m", "e">>

H_DateText == <<"D", "a", "t", "e">>

\* values[index] || ''
CsvValueAt(values, index) ==
  IF index <= Len(values) THEN values[index] ELSE <<>>

\* The value stored under a header: the text for the two identity columns,
\* safeFloat(val) for every other one.
CsvCell(header, val) ==
  IF header = H_PlantText \/ header = H_DateText
  THEN StrCell(val)
  ELSE NumCell(safeFloat(StrCell(val)))

\* The object headers.forEach fills: a later column of the same name
\* overwrites an earlier one.
CsvRow(headers, values) ==
  [ h \in {headers[i] : i \in 1..Len(headers)} |->
      LET index == CHOOSE i \in 1..Len(headers) :
                     headers[i] = h /\ \A j \in (i + 1)..Len(headers) : headers[j] # h
      IN  CsvCell(h, CsvValueAt(values, index)) ]

\* The loop over lines[i..], skipping the lines with fewer than two values.
RECURSIVE CsvRows(_, _, _)
CsvRows(headers, lines, i) ==
  IF i > Len(lines) THEN <<>>
  ELSE IF Len(CsvValues(lines[i])) < 2 THEN CsvRows(headers, lines, i + 1)
  ELSE <<CsvRow(headers, CsvValues(lines[i]))>> \o CsvRows(headers, lines, i + 1)

CsvFromLines_WithHeader(lines) ==
  IF Len(lines) < 2 THEN <<>> ELSE CsvRows(CsvValues(lines[1]), lines, 1)

CsvFromLines(lines) ==
  IF Len(lines) < 2 THEN <<>> ELSE CsvRows(CsvValues(lines[1]), lines, 2)

parseCSV(text) == CsvFromLines(SplitOn(Trim(text), "\n"))

\* The longest of the enumerated texts.
MaxCsvLen == 5

CsvChars == {"1", "2", ",", "\n", " "}

\* Two data lines under a header with the two identity columns.
CsvTwoPlants ==
  <<"P", "l", "a", "n", "t", " ", "N", "a", "m", "e", ",", "D", "a", "t",
       "e", ",", "G", "a", "s", "\n", "A", ",", "0", "5", "-", "O", "c",
       "t", "-", "2", "5", ",", "1", ".", "5", "\n", "B", ",", "0", "1",
       "-", "O", "c", "t", "-", "2", "5", ",", "2", "\n">>

\* A blank line before the header.
CsvLeadingBlankLine ==
  <<"\n", "P", "l", "a", "n", "t", " ", "N", "a", "m", "e", ",", "G",
       "a", "s", "\n", "A", ",", "1">>

\* A one-value line and an empty line between two data lines, the second
\* of which has a value more than the header has columns.
CsvShortLines ==
  <<"P", "l", "a", "n", "t", " ", "N", "a", "m", "e", ",", "G", "a", "s",
       "\n", "A", ",", "1", "\n", "s", "k", "i", "p", "p", "e", "d", "\n",
       "\n", "B", ",", "2", ",", "9">>

\* A header and nothing else.
CsvHeaderOnly ==
  <<"P", "l", "a", "n", "t", " ", "N", "a", "m", "e", ",", "G", "a", "s",
       "\n">>

CsvTexts ==
  UNION {[1..n -> CsvChars] : n \in 0..MaxCsvLen}
    \cup {CsvTwoPlants, CsvLeadingBlankLine, CsvShortLines, CsvHeaderOnly}

\* parseCSV(csvText)
ParseCsv ==
  /\ csvData = <<>>
  /\ csvData' = <<parseCSV(csvText)>>
  /\ UNCHANGED <<allData, selectedDate, selectedPlantName, energyUnit, reading,
                 alerted, crashed, tz, raw, out, raw2, out2, isAnalysisOpen,
                 analysisResult, isAnalyzing, requests, csvText>>

CsvInit ==
  /\ AppInit
  /\ csvText \in CsvTexts
  /\ tz = 0
  /\ raw = ExampleRow
  /\ out = <<>>
  /\ raw2 = <<>>
  /\ out2 = <<>>

CsvNext == ParseCsv

CsvSpec == CsvInit /\ [][CsvNext]_vars

\* ========================================================================
\* Properties
\* ========================================================================

\* The field of ProcessedPlantData that processPlantData fills from column h.
FieldOf(h) ==
  CASE h = "Gas Flared (SCM)" -> "gasFlared"
    [] h = "Gas Consumption - Boiler (SCM)" -> "gasBoiler"
    [] h = "Gas Consumption - Furnace (SCM)" -> "gasFurnace"
    [] h = "Gas Consumption - GDU (SCM)" -> "gasGDU"
    [] h = "Gas Consumption - Engine (SCM)" -> "gasEngine"
    [] h = "Gas Consumption - Package Gas Compressor (SCM)" -> "gasCompressor"
    [] h = "Electrical Consumption - GCS (kWh)" -> "elecGCS"
    [] h = "Electrical Consumption - ETP (kWh)" -> "elecETP"
    [] h = "Electrical Consumption - Refinery (kWh)" -> "elecRefinery"
    [] h = "Water Consumption - GCS (m3)" -> "waterGCS"
    [] h = "Water Consumption - Refinery (m3)" -> "waterRefinery"
    [] h = "Electrical Generated (kWh)" -> "elecGenerated"
    [] h = "HSD Consumption - Pumps (KL)" -> "hsdPumps"
    [] h = "HSD Consumption - Emergency Diesel Gensets (KL)" -> "hsdGensets"
    [] h = "HSD Issued - Fire Section (KL)" -> "hsdIssuedFire"
    [] h = "HSD Issued - PSA (KL)" -> "hsdIssuedPSA"
    [] h = "HSD Issued - Others (KL)" -> "hsdIssuedOthers"
    [] h = "Gas Production (SCM)" -> "gasProduced"
    [] h = "Oil Production (Barrels)" -> "oilProduced"
    [] h = "APSEB Electricity Imported (kWh)" -> "elecImported"
    [] h = "Expected Energy Consumption (MMBTU)" -> "expectedEnergyMMBTU"

\* The records processPlantData has produced in this state.
Produced == {out[i] : i \in 1..Len(out)} \cup {out2[i] : i \in 1..Len(out2)}

\* Both rows are processed and differ in the cells of the columns H only.
DifferOnlyIn(H) ==
  /\ out # <<>>
  /\ out2 # <<>>
  /\ raw2[1] # raw
  /\ \A h \in Headers \ H : raw2[1][h] = raw[h]

\* Total reads in flight.
ReadsInFlight == SumReading(FileNames)

\* ------------------------------------------------------------------------
\* C1: when ingestion of an uploaded file fails (XLSX.read throws on the
\* file, or the file read errors), the step that ends the upload leaves the
\* active dataset allData as it was.
C1_FailedIngestionKeepsDataset ==
  [][ \A n \in FileNames :
        ( (FileNamed(n).kind = "corrupt" /\ UploadLoaded(n)) \/ UploadFailed(n) )
          => allData' = allData ]_vars

\* ------------------------------------------------------------------------
\* C2: under every interleaving of uploads, the active dataset is the
\* initial empty dataset or the complete list of processed rows of one
\* single file; never part of a file, never rows of two uploads.
C2_DatasetIsOneWholeFile ==
  \/ allData = <<>>
  \/ \E f \in Files : allData = ProcessAll(readDataFile(f, tz))

\* A dataset is active while the reads of two other uploads overlap.
C2_Witness ==
  /\ allData = ProcessAll(readDataFile(FileB, tz))
  /\ reading["A"] = 1
  /\ reading["B"] = 1

\* ------------------------------------------------------------------------
\* C3: every numeric field of a record produced by processPlantData is a
\* finite number (no NaN, no infinity), whatever the cells of the row.
C3_NumericFieldsFinite ==
  \A r \in Produced : \A f \in NumericFields : IsFinite(r[f])

\* ------------------------------------------------------------------------
\* C4: safeFloat returns a number cell unchanged, the parsed value of text
\* that parses as a float, and 0 for a missing cell, null, blank text and
\* non-numeric text.

\* What parseFloat gives for the text cells of the model, NaN written as the
\* 0 safeFloat turns it into (a table, not the scan of ParseFloatText).
ExpectedOfText(s) ==
  CASE s = <<>> -> Zero
    [] s = <<"a", "b", "c">> -> Zero
    [] s = <<" ", "1", "2">> -> Num(12)
    [] s = <<"1", ".", "5", "x">> -> Rat(3, 2)
    [] s = <<"-", ".", "5">> -> Rat(-1, 2)
    [] s = <<"2", "e", "1">> -> Num(20)
    [] s = <<"I", "n", "f", "i", "n", "i", "t", "y">> -> PosInf
    [] s = <<"-", "I", "n", "f", "i", "n", "i", "t", "y">> -> NegInf
    [] s = <<"1", "e", "9", "9", "9">> -> PosInf

SafeFloatAsClaimed(c, r) ==
  /\ c.k = "number" => r = c.v
  /\ c.k \in {"undefined", "null"} => r = Zero
  /\ c.k = "string" => r = ExpectedOfText(c.s)

C4_SafeFloat ==
  /\ out # <<>> =>
       \A h \in NumericHeaders : SafeFloatAsClaimed(raw[h], out[1][FieldOf(h)])
  /\ out2 # <<>> =>
       \A h \in NumericHeaders : SafeFloatAsClaimed(raw2[1][h], out2[1][FieldOf(h)])

\* A processed row with a non-numeric text cell read as 0, and one with a
\* numeric prefix read as its value.
C4_Witness ==
  /\ out # <<>>
  /\ out2 # <<>>
  /\ \E h \in NumericHeaders :
       raw[h] = StrCell(<<"a", "b", "c">>) /\ out[1][FieldOf(h)] = Zero
  /\ \E h \in NumericHeaders :
       raw2[1][h] = StrCell(<<"1", ".", "5", "x">>) /\ out2[1][FieldOf(h)] = Rat(3, 2)

\* ------------------------------------------------------------------------
\* C5: every record that reaches the presentation layer (one produced by
\* processPlantData, or the blank placeholder) has each total equal to the
\* sum of its components.  Equality is identity of values (a NaN total
\* equals a NaN sum).
SumInvariants(r) ==
  /\ r.gasTotalInternal =
       Add(Add(Add(Add(r.gasBoiler, r.gasFurnace), r.gasGDU), r.gasEngine),
           r.gasCompressor)
  /\ r.elecTotalConsumed = Add(Add(r.elecGCS, r.elecETP), r.elecRefinery)
  /\ r.waterTotal = Add(r.waterGCS, r.waterRefinery)
  /\ r.hsdTotalConsumed = Add(r.hsdPumps, r.hsdGensets)
  /\ r.hsdTotalIssued = Add(Add(r.hsdIssuedFire, r.hsdIssuedPSA), r.hsdIssuedOthers)

C5_TotalsAreSums == \A r \in Produced \cup {getBlankPlantData} : SumInvariants(r)

\* The example row with a package gas compressor consumption of 2.
C5_Witness ==
  /\ out # <<>>
  /\ out[1].gasCompressor = Num(2)
  /\ out[1].gasBoiler = Num(100)
  /\ out[1].gasTotalInternal = Num(102)

\* ------------------------------------------------------------------------
\* C6: a zero or negative denominator gives a ratio of exactly 0:
\* totalEnergyProduced <= 0 implies SEC = 0, expectedEnergy <= 0 implies
\* EII = 0, gasProduced <= 0 implies emissionIntensity = 0.
C6_GuardedRatios ==
  \A r \in Produced :
    /\ Le(r.totalEnergyProducedMMBTU, Zero) => r.sec = Zero
    /\ Le(r.expectedEnergyMMBTU, Zero) => r.eii = Zero
    /\ Le(r.gasProduced, Zero) => r.emissionIntensity = Zero

\* Energy was expended and emitted, with a negative expected energy in one
\* row and a negative gas production in the other.
C6_Witness ==
  /\ out # <<>>
  /\ out2 # <<>>
  /\ out[1].expectedEnergyMMBTU = Num(-1)
  /\ Gt(out[1].totalEnergyExpendedMMBTU, Zero)
  /\ out[1].eii = Zero
  /\ out2[1].gasProduced = Num(-1)
  /\ Gt(out2[1].ghgTotal, Zero)
  /\ out2[1].emissionIntensity = Zero
  /\ out2[1].sec = Zero

\* ------------------------------------------------------------------------
\* C7: energyFromGas = gasTotalInternal * SCM_TO_MMBTU, energyFromHSD =
\* hsdTotalConsumed * KL_TO_MMBTU_HSD, totalEnergyExpended is their sum;
\* energyFromGasProd = gasProduced * SCM_TO_MMBTU, energyFromOilProd =
\* oilProduced * BARREL_TO_MMBTU_OIL, totalEnergyProduced is their sum.
C7_EnergyFields ==
  \A r \in Produced :
    /\ r.energyFromGasMMBTU = Mul(r.gasTotalInternal, Rat(396, 10000))
    /\ r.energyFromHSDMMBTU = Mul(r.hsdTotalConsumed, Rat(358, 10))
    /\ r.totalEnergyExpendedMMBTU = Add(r.energyFromGasMMBTU, r.energyFromHSDMMBTU)
    /\ r.energyFromGasProdMMBTU = Mul(r.gasProduced, Rat(396, 10000))
    /\ r.energyFromOilProdMMBTU = Mul(r.oilProduced, Rat(58, 10))
    /\ r.totalEnergyProducedMMBTU =
         Add(r.energyFromGasProdMMBTU, r.energyFromOilProdMMBTU)

\* A row with gas, HSD, gas production and oil production all non-zero.
C7_Witness ==
  /\ out # <<>>
  /\ out[1].hsdTotalConsumed = Num(10)
  /\ out[1].energyFromHSDMMBTU = Num(358)
  /\ out[1].oilProduced = Num(2)
  /\ out[1].totalEnergyProducedMMBTU = Rat(1952, 100)

\* ------------------------------------------------------------------------
\* C8: scope 1 = (gasTotalInternal * 1.88 + hsdTotalConsumed * 2650) / 1000,
\* scope 2 = (elecImported * 0.82) / 1000, ghgTotal = scope 1 + scope 2;
\* flared gas, generated electricity and issued diesel do not contribute.
NonContributing ==
  { "Gas Flared (SCM)", "Electrical Generated (kWh)",
    "HSD Issued - Fire Section (KL)", "HSD Issued - PSA (KL)",
    "HSD Issued - Others (KL)" }

C8_Emissions ==
  /\ \A r \in Produced :
       /\ r.ghgScope1 =
            Div(Add(Mul(r.gasTotalInternal, Rat(188, 100)),
                    Mul(r.hsdTotalConsumed, Num(2650))),
                Num(1000))
       /\ r.ghgScope2 = Div(Mul(r.elecImported, Rat(82, 100)), Num(1000))
       /\ r.ghgTotal = Add(r.ghgScope1, r.ghgScope2)
  /\ DifferOnlyIn(NonContributing) =>
       /\ out2[1].ghgScope1 = out[1].ghgScope1
       /\ out2[1].ghgScope2 = out[1].ghgScope2
       /\ out2[1].ghgTotal = out[1].ghgTotal

\* Two rows with emissions that differ in the flared gas alone.
C8_Witness ==
  /\ DifferOnlyIn({"Gas Flared (SCM)"})
  /\ out[1].gasFlared # out2[1].gasFlared
  /\ out[1].ghgScope1 = Rat(26688, 1000)
  /\ out[1].ghgScope2 = Rat(41, 100)

\* ------------------------------------------------------------------------
\* C9 as stated: when totalEnergyProduced > 0, SEC = energyFromGas /
\* totalEnergyProduced, and of two rows that differ only in their HSD
\* consumption the SEC is the same while the EII (with expectedEnergy > 0)
\* differs.  The rows are taken to differ in the value of an HSD
\* consumption field, and every value to be finite.
HsdHeaders == {H_HsdPumps, H_HsdGensets}

SecIsGasOnly ==
  \A r \in Produced :
    Gt(r.totalEnergyProducedMMBTU, Zero) =>
      r.sec = Div(r.energyFromGasMMBTU, r.totalEnergyProducedMMBTU)

AllFinite(r) == \A f \in NumericFields : IsFinite(r[f])

HsdValuesDiffer ==
  \/ out2[1].hsdPumps # out[1].hsdPumps
  \/ out2[1].hsdGensets # out[1].hsdGensets

C9_Original ==
  /\ SecIsGasOnly
  /\ ( /\ DifferOnlyIn(HsdHeaders)
       /\ HsdValuesDiffer
       /\ AllFinite(out[1])
       /\ AllFinite(out2[1])
       /\ Gt(out[1].totalEnergyProducedMMBTU, Zero) ) =>
       /\ out2[1].sec = out[1].sec
       /\ Gt(out[1].expectedEnergyMMBTU, Zero) => out2[1].eii # out[1].eii

\* C9 as amended: the SEC of the two rows is the same; their EII differs
\* exactly when expectedEnergy > 0 and their HSD totals (pumps + gensets)
\* differ, all values being finite.
C9_Amended ==
  /\ SecIsGasOnly
  /\ DifferOnlyIn(HsdHeaders) =>
       /\ out2[1].sec = out[1].sec
       /\ ( AllFinite(out[1]) /\ AllFinite(out2[1]) ) =>
            ( out2[1].eii # out[1].eii
                <=> ( Gt(out[1].expectedEnergyMMBTU, Zero)
                      /\ out2[1].hsdTotalConsumed # out[1].hsdTotalConsumed ) )

\* Two rows with production and expected energy whose HSD totals differ:
\* same SEC, different EII.
C9_Witness ==
  /\ DifferOnlyIn(HsdHeaders)
  /\ out[1].sec = Rat(1, 2)
  /\ out2[1].sec = Rat(1, 2)
  /\ out[1].hsdTotalConsumed = Num(10)
  /\ out2[1].hsdTotalConsumed = Num(12)
  /\ out[1].eii = Rat(72392, 100)
  /\ out2[1].eii # out[1].eii

\* ------------------------------------------------------------------------
\* C10: the example row (plant A, 01-Oct-25, boiler gas 100, HSD pumps 10,
\* imported electricity 500, gas produced 200, oil produced 0, expected
\* energy 50, all else 0) is processed to the listed values.
C10_Example ==
  ( out # <<>> /\ raw = ExampleRow ) =>
    /\ out[1].gasTotalInternal = Num(100)
    /\ out[1].energyFromGasMMBTU = Rat(396, 100)
    /\ out[1].energyFromHSDMMBTU = Num(358)
    /\ out[1].totalEnergyExpendedMMBTU = Rat(36196, 100)
    /\ out[1].energyFromGasProdMMBTU = Rat(792, 100)
    /\ out[1].totalEnergyProducedMMBTU = Rat(792, 100)
    /\ out[1].ghgScope1 = Rat(26688, 1000)
    /\ out[1].ghgScope2 = Rat(41, 100)
    /\ out[1].ghgTotal = Rat(27098, 1000)
    /\ out[1].sec = Rat(5, 10)
    /\ out[1].eii = Rat(72392, 100)
    /\ out[1].emissionIntensity = Rat(13549, 100000)

\* The example row has been processed.
C10_Witness ==
  /\ out # <<>>
  /\ raw = ExampleRow
  /\ out[1].plantName = StrCell(<<"A">>)
  /\ out[1].date = Oct01

\* ------------------------------------------------------------------------
\* Dates: helpers of the claims

\* Both rows have been read.
BothRead == out # <<>> /\ out2 # <<>>

\* The sort key of a record whose date is a string.
KeyOf(r) == parseDateString(r.date.s)

\* A Date cell that denotes a calendar day: a Date object at UTC midnight or
\* a whole serial above 30000.
IsCalendarCell(c) ==
  \/ /\ c.k = "date"
     /\ c.t % MinutesPerDay = 0
  \/ /\ c.k = "number"
     /\ IsFinite(c.v)
     /\ c.v.d = 1
     /\ c.v.n > 30000

\* The day number of the calendar day such a cell denotes.
TrueDay(c) == IF c.k = "date" THEN c.t \div MinutesPerDay ELSE c.v.n - 25569

\* The year of the local day the cell is normalized to: that of the moment
\* twelve hours after the day's UTC midnight.
NormalizedYear(c, zone) ==
  LocalFields(TrueDay(c) * MinutesPerDay + TwelveHours, zone).year

\* Two calendar days have been normalized, the first earlier than the second.
EarlierThenLater ==
  /\ BothRead
  /\ IsCalendarCell(raw[H_Date])
  /\ IsCalendarCell(raw2[1][H_Date])
  /\ TrueDay(raw[H_Date]) < TrueDay(raw2[1][H_Date])

\* ------------------------------------------------------------------------
\* C11 as stated: of any two calendar days d1 earlier than d2 that
\* readDataFile normalizes, the sort key of normalize(d1) is less than that
\* of normalize(d2).
C11_Original ==
  EarlierThenLater => Gt(KeyOf(out2[1]), KeyOf(out[1]))

\* C11 as amended: of two calendar days d1 earlier than d2 that readDataFile
\* normalizes to days of the years 2000 to 2099, the sort key of
\* normalize(d1) is less than that of normalize(d2).
C11_Amended ==
  ( /\ EarlierThenLater
    /\ NormalizedYear(raw[H_Date], tz) \in 2000..2099
    /\ NormalizedYear(raw2[1][H_Date], tz) \in 2000..2099 )
  => Gt(KeyOf(out2[1]), KeyOf(out[1]))

\* 31-Dec-25 as a Date object and 01-Jan-26 as a serial, west of Greenwich.
C11_Witness ==
  /\ BothRead
  /\ tz = -480
  /\ raw[H_Date] = DateCell(DaysFromCivil(2025, 12, 31) * MinutesPerDay)
  /\ raw2[1][H_Date] = NumCell(Num(DaysFromCivil(2026, 1, 1) + 25569))
  /\ Gt(KeyOf(out2[1]), KeyOf(out[1]))

\* ------------------------------------------------------------------------
\* C12: helpers

MonthNames == { MonthShort(m) : m \in 1..12 }

\* s has the form DD-Mon-YY.
IsWellFormedDate(s) ==
  /\ Len(s) = 9
  /\ IsDigit(s[1])
  /\ IsDigit(s[2])
  /\ s[3] = "-"
  /\ SubSeq(s, 4, 6) \in MonthNames
  /\ s[7] = "-"
  /\ IsDigit(s[8])
  /\ IsDigit(s[9])

\* The number of segments the dashes of s cut it into.
SegmentCount(s) == Cardinality({ i \in 1..Len(s) : s[i] = "-" }) + 1

\* The arrays the sort of the two records' distinct dates can give.
SortedPair == SortResults(Unique(<<out[1].date, out2[1].date>>))

\* Both records have string dates, the first well-formed.
WellFormedThenText ==
  /\ BothRead
  /\ out[1].date.k = "string"
  /\ out2[1].date.k = "string"
  /\ IsWellFormedDate(out[1].date.s)

CanonicalOfDay(z) == StrCell(FormatFields(CivilFromDays(z)))

\* C13: a Date object at UTC midnight of day D, or a whole serial above
\* 30000 of day D, is normalized to the canonical string of day D itself in
\* every local time zone.
C13_NoOneDayDrift ==
  /\ ( out # <<>> /\ IsCalendarCell(raw[H_Date]) ) =>
       out[1].date = CanonicalOfDay(TrueDay(raw[H_Date]))
  /\ ( out2 # <<>> /\ IsCalendarCell(raw2[1][H_Date]) ) =>
       out2[1].date = CanonicalOfDay(TrueDay(raw2[1][H_Date]))

\* ------------------------------------------------------------------------
\* The first row's Date cell is the serial 45901 (01-Sep-2025) and the row
\* has been read in a zone west (-08:00) or east (+05:30) of Greenwich.
Serial45901Read ==
  /\ out # <<>>
  /\ raw[H_Date] = NumCell(Num(45901))
  /\ tz \in {-480, 330}

Sep01 == StrCell(<<"0", "1", "-", "S", "e", "p", "-", "2", "5">>)

\* C14 as stated: serial 45901 normalizes to a string whose sort key is the
\* UTC midday timestamp of 01-Sep-2025, west and east of Greenwich.
C14_Original ==
  Serial45901Read =>
    KeyOf(out[1]) = Num(DaysFromCivil(2025, 9, 1) * MinutesPerDay + TwelveHours)

\* C14 as amended: serial 45901 normalizes to 01-Sep-25, whose sort key is
\* the UTC midnight timestamp of 01-Sep-2025, west and east of Greenwich.
C14_Amended ==
  Serial45901Read =>
    /\ out[1].date = Sep01
    /\ KeyOf(out[1]) = Num(DaysFromCivil(2025, 9, 1) * MinutesPerDay)

\* Serial 45901 has been read eight hours west of Greenwich.
C14_Witness ==
  /\ Serial45901Read
  /\ tz = -480
  /\ out[1].date = Sep01

\* ------------------------------------------------------------------------
\* What C15 says of a row whose Date cell is the number c and whose record
\* is r: above 30000 the date is a DD-Mon-YY string; at 30000 or below the
\* cell is left as it was (the record's date is the number itself, or
\* "Unknown Date" for 0) and is no DD-Mon-YY string.
SerialPathAsClaimed(c, r) ==
  c.k = "number" =>
    IF Gt(c.v, Num(30000))
    THEN /\ r.date.k = "string"
         /\ IsWellFormedDate(r.date.s)
    ELSE /\ r.date = (IF c.v = Zero THEN UnknownDate ELSE c)
         /\ ~( r.date.k = "string" /\ IsWellFormedDate(r.date.s) )

\* C15: a numeric Date cell goes through the serial-date path if and only
\* if it is greater than 30000.
C15_SerialThreshold ==
  /\ out # <<>> => SerialPathAsClaimed(raw[H_Date], out[1])
  /\ out2 # <<>> => SerialPathAsClaimed(raw2[1][H_Date], out2[1])

Feb19_82 == StrCell(<<"1", "9", "-", "F", "e", "b", "-", "8", "2">>)

\* 30000 was left a number and 30001 became 19-Feb-82.
C15_Witness ==
  /\ BothRead
  /\ tz = 0
  /\ raw[H_Date] = NumCell(Num(30000))
  /\ out[1].date = NumCell(Num(30000))
  /\ raw2[1][H_Date] = NumCell(Num(30001))
  /\ out2[1].date = Feb19_82

\* ------------------------------------------------------------------------
\* Derived views of the active dataset: helpers of the claims

\* The dataset of file f as the application holds it.
DatasetOf(f) == ProcessAll(readDataFile(f, tz))

\* The dates occurring in the active dataset.
DatesInDataset == { allData[i].date : i \in 1..Len(allData) }

\* view holds each date of the dataset exactly once and nothing else.
HoldsEachDateOnce(view) ==
  /\ { view[i] : i \in 1..Len(view) } = DatesInDataset
  /\ \A i, j \in 1..Len(view) : i # j => view[i] # view[j]

\* view is ascending by the sort key.
AscendingByKey(view) ==
  \A i \in 1..(Len(view) - 1) : Le(DateKey(view[i]), DateKey(view[i + 1]))

\* No date of view has the sort key NaN (the dates are strings).
NoNaNKey(view) ==
  \A i \in 1..Len(view) : view[i].k = "string" /\ ~IsNaN(DateKey(view[i]))

OnSelectedDate == { i \in 1..Len(allData) : allData[i].date = selectedDate }

\* C17: the plants-for-a-date view is the plant names of the records of the
\* selected date, in dataset order, duplicates kept; it is empty when no date
\* is selected.
C17_PlantsForDate ==
  /\ Len(availablePlants(allData, selectedDate)) = Cardinality(OnSelectedDate)
  /\ \A i \in OnSelectedDate :
       availablePlants(allData, selectedDate)
         [Cardinality({ q \in OnSelectedDate : q <= i })] = allData[i].plantName
  /\ selectedDate = EmptyString => availablePlants(allData, selectedDate) = <<>>

\* 05-Oct-25 is selected in the dataset of file D: plants A, C, B, A.
C17_Witness ==
  /\ allData = DatasetOf(FileD)
  /\ selectedDate = Oct05
  /\ availablePlants(allData, selectedDate) =
       << StrCell(<<"A">>), StrCell(<<"C">>), StrCell(<<"B">>), StrCell(<<"A">>) >>

\* ------------------------------------------------------------------------
\* The positions of the records of the selected date and plant.
OnSelection ==
  { i \in OnSelectedDate : allData[i].plantName = selectedPlantName }

\* r is the placeholder record.
IsPlaceholder(r) ==
  /\ r.plantName = StrCell(<<"S", "e", "l", "e", "c", "t", " ", "P", "l", "a", "n", "t">>)
  /\ r.date = StrCell(<<"S", "e", "l", "e", "c", "t", " ", "D", "a", "t", "e">>)
  /\ \A f \in NumericFields : r[f] = Zero

\* C18: the lookup by (selected date, selected plant) gives a record of the
\* dataset with that date and plant when there is one, and the placeholder
\* record otherwise.
C18_LookupOrPlaceholder ==
  IF OnSelection # {}
  THEN \E i \in OnSelection :
         currentPlantData(allData, selectedDate, selectedPlantName) = allData[i]
  ELSE IsPlaceholder(currentPlantData(allData, selectedDate, selectedPlantName))

\* Plant B on 05-Oct-25 is selected in the dataset of file D: its fourth record.
C18_Witness ==
  /\ allData = DatasetOf(FileD)
  /\ selectedDate = Oct05
  /\ selectedPlantName = StrCell(<<"B">>)
  /\ currentPlantData(allData, selectedDate, selectedPlantName) = allData[4]

\* ------------------------------------------------------------------------
\* The positions of the records of the selected date with sec > 0.
WithPositiveSec == { i \in OnSelectedDate : Gt(allData[i].sec, Zero) }

\* st, a result of secStats other than null, is right: min and max are
\* records of the selected date with sec > 0 and bound the sec of all such.
MinMaxAsClaimed(st) ==
  /\ \E i \in WithPositiveSec : st.min = allData[i]
  /\ \E i \in WithPositiveSec : st.max = allData[i]
  /\ \A i \in WithPositiveSec :
       /\ Le(st.min.sec, allData[i].sec)
       /\ Le(allData[i].sec, st.max.sec)

\* C19: secStats is null exactly when no record of the selected date has
\* sec > 0; otherwise its min and max are such records and bound all such.
C19_SecStats ==
  /\ secStats(allData, selectedDate) = <<>> <=> WithPositiveSec = {}
  /\ secStats(allData, selectedDate) # <<>> =>
       MinMaxAsClaimed(secStats(allData, selectedDate)[1])

\* 05-Oct-25 in the dataset of file D: sec 0.5, 0, 0.75, 0.1; the minimum is
\* the fifth record and the maximum the fourth.
C19_Witness ==
  /\ allData = DatasetOf(FileD)
  /\ selectedDate = Oct05
  /\ allData[3].sec = Zero
  /\ secStats(allData, selectedDate) = << [min |-> allData[5], max |-> allData[4]] >>

\* ------------------------------------------------------------------------
\* C20: the active dataset holds at most one record per (plant name, date).
C20_UniquePlantDate ==
  \A i, j \in 1..Len(allData) :
    ( allData[i].plantName = allData[j].plantName
      /\ allData[i].date = allData[j].date ) => i = j

\* C21: a step that changes the active dataset is the arrival of an upload;
\* selecting a date or a plant, running an analysis, receiving its answer,
\* closing the modal and switching between MMBTU and GJ leave every stored
\* record as it was.
C21_OnlyUploadChangesData ==
  [][allData' # allData => \E n \in FileNames : UploadLoaded(n)]_vars

\* A dataset shown in GJ after a selection and an answered analysis is still
\* the uploaded one, its energies in MMBTU.
C21_Witness ==
  /\ allData = DatasetOf(FileA)
  /\ energyUnit = "GJ"
  /\ selectedPlantName = StrCell(<<"B">>)
  /\ requests # <<>>
  /\ analysisResult # Null
  /\ formatEnergy(allData[1].totalEnergyExpendedMMBTU, energyUnit)
       # allData[1].totalEnergyExpendedMMBTU

\* A cell that is neither missing nor the empty text.
IsPresent(c) == c.k \notin {"undefined", "null"} /\ c # EmptyString

\* The identity fields of record o as the claim has them for row r.
IdentityAsClaimed(r, o) ==
  /\ o.plantName = IF IsPresent(r[H_Plant]) THEN r[H_Plant] ELSE UnknownPlant
  /\ o.date = IF IsPresent(r[H_Date]) THEN r[H_Date] ELSE UnknownDate

\* A cell holding the number 0 or NaN.
IsZeroOrNaN(c) == c.k = "number" /\ (c.v = Zero \/ IsNaN(c.v))

IdentityAsAmended(r, o) ==
  /\ o.plantName = IF IsPresent(r[H_Plant]) /\ ~IsZeroOrNaN(r[H_Plant])
                   THEN r[H_Plant] ELSE UnknownPlant
  /\ o.date = IF IsPresent(r[H_Date]) /\ ~IsZeroOrNaN(r[H_Date])
              THEN r[H_Date] ELSE UnknownDate

\* C22 as stated: a missing or empty plant name or date becomes
\* 'Unknown Plant' / 'Unknown Date', and every present value is passed
\* through unchanged.
C22_Original ==
  /\ out # <<>> => IdentityAsClaimed(raw, out[1])
  /\ out2 # <<>> => IdentityAsClaimed(raw2[1], out2[1])

\* C22 amended: a missing or empty plant name or date, and one that is the
\* number 0 or NaN, becomes 'Unknown Plant' / 'Unknown Date', never 0; every
\* other value is passed through unchanged.
C22_Amended ==
  /\ out # <<>> =>
       /\ IdentityAsAmended(raw, out[1])
       /\ NumCell(Zero) \notin {out[1].plantName, out[1].date}
  /\ out2 # <<>> =>
       /\ IdentityAsAmended(raw2[1], out2[1])
       /\ NumCell(Zero) \notin {out2[1].plantName, out2[1].date}

\* A row without a date cell, processed next to one that has a plant and a date.
C22_Witness ==
  /\ out # <<>>
  /\ out2 # <<>>
  /\ raw[H_Plant] = StrCell(<<"A">>)
  /\ out[1].plantName = StrCell(<<"A">>)
  /\ raw2[1][H_Date] = Undefined
  /\ out2[1].date = UnknownDate

\* The second call was on the row of the first.
SameRowTwice == out # <<>> /\ out2 # <<>> /\ raw2[1] = raw

HasTwoValues(line) == \E j \in 1..Len(line) : line[j] = ","

\* The lines after the first that have at least two values, in input order.
LaterLinesWithValues(lines) ==
  SelectSeq([i \in 1..Len(lines) |-> i],
            LAMBDA i : i >= 2 /\ HasTwoValues(lines[i]))

\* data has one record for each later line with two values, in input order,
\* under the header of the first line, and is empty for fewer than two lines.
RecordsOfLines(lines, data) ==
  IF Len(lines) < 2 THEN data = <<>>
  ELSE /\ Len(data) = Len(LaterLinesWithValues(lines))
       /\ \A k \in 1..Len(data) :
            data[k] = CsvRow(CsvValues(lines[1]),
                             CsvValues(lines[LaterLinesWithValues(lines)[k]]))

\* C24 as stated: the first line of the text is the header and is never a
\* record; each later line with at least two comma-delimited values gives
\* one record, in input order; later lines with fewer are skipped; a text of
\* fewer than two lines gives the empty dataset.
C24_Original ==
  csvData # <<>> => RecordsOfLines(SplitOn(csvText, "\n"), csvData[1])

\* C24 amended: the same, for the lines of the text with the white space at
\* its two ends removed.
C24_Amended ==
  csvData # <<>> => RecordsOfLines(SplitOn(Trim(csvText), "\n"), csvData[1])

\* The text with a one-value line and an empty line gives the records of
\* plants A and B, in that order.
C24_Witness ==
  /\ csvText = CsvShortLines
  /\ csvData # <<>>
  /\ Len(csvData[1]) = 2
  /\ csvData[1][1][H_PlantText] = StrCell(<<"A">>)
  /\ csvData[1][2][H_PlantText] = StrCell(<<"B">>)
  /\ csvData[1][2][<<"G", "a", "s">>] = NumCell(Num(2))

\* The selected date is empty or a date of the dataset, and the selected
\* plant is empty or a plant the dataset has on the selected date.
SelectionWithinOptions ==
  /\ \/ selectedDate = EmptyString
     \/ selectedDate \in AvailableDateOptions(allData)
  /\ \/ selectedPlantName = EmptyString
     \/ \E i \in 1..Len(availablePlants(allData, selectedDate)) :
          availablePlants(allData, selectedDate)[i] = selectedPlantName

KeyOrNaN(c) == IF c.k = "string" THEN DateKey(c) ELSE NaN

\* The upload delivered records and handleFileUpload ran to its end.
UploadSucceeded(data) == data # <<>> /\ ~SortThrows(Unique(DatesOf(data)))

\* date has the smallest sort key among the dates of data, plant is the
\* plant of the first record of data with that date, and the lookup by the
\* two gives a record of data.
FirstSelection(data, date, plant) ==
  /\ \E i \in 1..Len(data) : data[i].date = date
  /\ \A i \in 1..Len(data) : Le(KeyOrNaN(date), KeyOrNaN(data[i].date))
  /\ \E i \in 1..Len(data) :
       /\ data[i].date = date
       /\ \A j \in 1..(i - 1) : data[j].date # date
       /\ plant = data[i].plantName
  /\ \E i \in 1..Len(data) : currentPlantData(data, date, plant) = data[i]

SomePending == \E k \in 1..Len(requests) : requests[k].pending

\* The displayed result is a response to the request started last.
ShowsLastStarted ==
  \E o \in Outcomes :
    analysisResult = generatePlantAnalysis(requests[Len(requests)].prompt, o)

\* C27: once all overlapping analysis requests have completed the displayed
\* result is the response to the request started last, and the loading flag
\* is never false while a request is pending.
C27_LastRequestWins ==
  /\ (requests # <<>> /\ ~SomePending) => ShowsLastStarted
  /\ SomePending => isAnalyzing

\* The record the dashboard shows.
CurrentRecord == currentPlantData(allData, selectedDate, selectedPlantName)

\* What a click on Run Analysis does: nothing for the placeholder record;
\* for any other record the modal opens, the loading flag is set, the
\* previous result is cleared and one more request is pending.
RunAnalysisEffect ==
  IF IsPlaceholder(CurrentRecord)
  THEN UNCHANGED vars
  ELSE /\ isAnalyzing'
       /\ analysisResult' = Null
       /\ isAnalysisOpen'
       /\ Len(requests') = Len(requests) + 1
       /\ requests'[Len(requests')].pending
       /\ requests'[Len(requests')].prompt.plant = CurrentRecord.plantName

====
